---------------------------- MODULE Spec2Model ----------------------------
(***************************************************************************)
(* A model of the tree-walking Lox interpreter: scanner, parser, resolver  *)
(* and evaluator, driven by Lox::run from run_file and run_prompt.         *)
(*                                                                         *)
(* Source text is a sequence of one-character strings.  Reference-counted  *)
(* cells (Rc<RefCell<Environment>>, the field map of an instance) are      *)
(* indices into the heaps `envs` and `fields`.  Option<T> is a sequence of *)
(* length 0 or 1.  Numbers are the values of f64, and the arithmetic on     *)
(* them is that of IEEE-754 binary64.                                      *)
(***************************************************************************)
EXTENDS Integers, Sequences, FiniteSets, TLC

VARIABLES
    pc,             \* "main" before main dispatches, "repl" in run_prompt, "exit" after run_file, "crashed"
    envs,           \* heap of Environment cells; envs[1] is the globals frame
    fields,         \* heap of instance field maps
    interpreter,    \* [globals, environment, locals]: the Interpreter struct
    NEXT_EXPR_ID,   \* the parser's static id counter
    input,          \* the source text handed to the last Lox::run
    stages,         \* the pipeline stages the last Lox::run entered, in order
    result,         \* what the last Lox::run returned: "Ok" or the LoxError variant
    out,            \* the lines the last Lox::run wrote to stdout
    reported,       \* the kinds of error the last Lox::run wrote to stderr
    nInputs,        \* how many inputs run_prompt has read
    audit,          \* what the last Lox::run's reads and writes at a recorded depth met
    clox_pc,        \* the bytecode front end: "off", "iterating" over the scanner, "spinning" in a call of next
    scanner,        \* the bytecode front end's Scanner: [src, pos, line, is_done]
    yielded         \* what the calls of the scanner's next have returned, in order

vars ==
    <<pc, envs, fields, interpreter, NEXT_EXPR_ID, input, stages, result, out, reported,
      nInputs, audit, clox_pc, scanner, yielded>>

\* the state of the tree-walking interpreter's process
loxVars ==
    <<pc, envs, fields, interpreter, NEXT_EXPR_ID, input, stages, result, out, reported,
      nInputs, audit>>

\* the state of the bytecode front end
cloxVars == <<clox_pc, scanner, yielded>>

\* How many inputs one REPL session reads.
MaxInputs == 3

\* How many statements and calls one run may execute before it is cut off.
MaxSteps == 60

\* How many times one run may read the system clock before it is cut off.
MaxClockCalls == 2

-----------------------------------------------------------------------------
(* Option<T> *)

None == <<>>

Some(x) == <<x>>

IsSome(o) == Len(o) = 1

Unwrap(o) == o[1]

\* `let v = e;`: the value e under the name the body K gives it
Let(v, K(_)) == K(v)

\* `let v = e;` with e worked out at this point, before K runs (the argument
\* of Let is worked out where K first uses it)
Now(v, K(_)) == CASE v = v -> K(v)

\* the `?` operator: the rest K of the function runs on an Ok result, an Err
\* result is returned as it is
Try(r, K(_)) == IF r.ok THEN K(r) ELSE r

-----------------------------------------------------------------------------
(* Characters: char::is_ascii_digit, char::is_alphabetic, is_alphanumeric *)

\* A character of a text is a string.  The texts of the model write a
\* character of ASCII that prints, the backquote apart, as itself, the tab,
\* the line feed, the form feed and the carriage return as "\t", "\n", "\f"
\* and "\r", and every other character as "U+" and its code point in
\* hexadecimal ("U+00E9" is e with acute accent, "U+000B" the vertical tab,
\* "U+0060" the backquote, which no string holds).  The operators of this
\* section take a character of ASCII written in either way.

Digits == <<"0", "1", "2", "3", "4", "5", "6", "7", "8", "9">>

HexDigits ==
    <<"0", "1", "2", "3", "4", "5", "6", "7", "8", "9", "A", "B", "C", "D", "E", "F">>

Letters ==
    {"a", "b", "c", "d", "e", "f", "g", "h", "i", "j", "k", "l", "m",
     "n", "o", "p", "q", "r", "s", "t", "u", "v", "w", "x", "y", "z",
     "A", "B", "C", "D", "E", "F", "G", "H", "I", "J", "K", "L", "M",
     "N", "O", "P", "Q", "R", "S", "T", "U", "V", "W", "X", "Y", "Z"}

\* the character is written by its code point
IsCodePoint(c) == Len(c) > 2 /\ SubSeq(c, 1, 2) = "U+"

RECURSIVE CodePointFrom(_, _, _)
\* the number the hexadecimal digits of c from place i on add to n
CodePointFrom(c, i, n) ==
    IF i > Len(c) THEN n
    ELSE CodePointFrom(c, i + 1,
                       16 * n + (CHOOSE k \in 0..15 : HexDigits[k + 1] = SubSeq(c, i, i)))

\* the code point of a character that is written by it
CodePoint(c) == CodePointFrom(c, 3, 0)

\* char::is_ascii_digit
IsAsciiDigit(c) ==
    IF IsCodePoint(c) THEN CodePoint(c) \in 48..57 ELSE \E i \in 1..10 : Digits[i] = c

DigitValue(c) == (CHOOSE i \in 1..10 : Digits[i] = c) - 1

\* char::is_ascii_alphabetic
IsAsciiAlphabetic(c) ==
    IF IsCodePoint(c) THEN CodePoint(c) \in (65..90) \cup (97..122) ELSE c \in Letters

\* char::is_ascii_alphanumeric
IsAsciiAlphanumeric(c) == IsAsciiAlphabetic(c) \/ IsAsciiDigit(c)

\* the vertical tab as a string holds it
VerticalTab == ""

\* The code points with the property White_Space: U+0009 to U+000D (tab,
\* line feed, vertical tab, form feed, carriage return), the space, next
\* line, the no-break space, the ogham space mark, U+2000 to U+200A, the
\* line and the paragraph separator, the narrow no-break space, the medium
\* mathematical space and the ideographic space
WhiteSpace ==
    (9..13) \cup {32, 133, 160, 5760} \cup (8192..8202)
        \cup {8232, 8233, 8239, 8287, 12288}

\* char::is_whitespace: the White_Space property
IsWhitespace(c) ==
    IF IsCodePoint(c) THEN CodePoint(c) \in WhiteSpace
    ELSE c \in {" ", "\t", "\n", VerticalTab, "\f", "\r"}

\* The characters beyond ASCII that the texts of the model are made of, by
\* the Unicode property they have: Alphabetic (e acute, lambda, the
\* ideograph U+4E2D), Numeric and not Alphabetic (Arabic-Indic digit three,
\* superscript two, vulgar fraction one half), White_Space (next line,
\* no-break space, line separator, ideographic space), none of the three
\* (the euro sign, the emoji U+1F600)
UnicodeAlphabetic == {"U+00E9", "U+03BB", "U+4E2D"}

UnicodeNumeric == {"U+0663", "U+00B2", "U+00BD"}

UnicodeWhiteSpace == {"U+0085", "U+00A0", "U+2028", "U+3000"}

UnicodeOther == {"U+20AC", "U+1F600"}

\* The code points from U+0080 to U+00FF with the property Alphabetic (the
\* two ordinal indicators, the micro sign, the letters from U+00C0 on but
\* for the multiplication and the division sign) and those of the general
\* categories Nd, Nl and No (the superscripts two, three and one, the three
\* vulgar fractions)
Latin1Alphabetic == {170, 181, 186} \cup (192..214) \cup (216..246) \cup (248..255)

Latin1Numeric == {178, 179, 185, 188, 189, 190}

\* The Unicode property of a character beyond ASCII that is written by
\* its code point: by the code point up to U+00FF and for the white space,
\* that of its set for the other characters.  A character beyond U+00FF
\* that is no white space and is in none of the sets is no character of
\* the model and has no property here.
UnicodeProperty(c) ==
    CASE CodePoint(c) \in WhiteSpace -> "White_Space"
      [] CodePoint(c) \in Latin1Alphabetic \/ c \in UnicodeAlphabetic -> "Alphabetic"
      [] CodePoint(c) \in Latin1Numeric \/ c \in UnicodeNumeric -> "Numeric"
      [] CodePoint(c) \in 128..255 \/ c \in UnicodeOther -> "none"

\* char::is_alphabetic: the ASCII letters and the characters beyond ASCII
\* with the Alphabetic property
IsAlphabetic(c) ==
    IF IsCodePoint(c) /\ CodePoint(c) > 127 THEN UnicodeProperty(c) = "Alphabetic"
    ELSE IsAsciiAlphabetic(c)

\* char::is_numeric: the general categories Nd, Nl and No
IsNumeric(c) ==
    IF IsCodePoint(c) /\ CodePoint(c) > 127 THEN UnicodeProperty(c) = "Numeric"
    ELSE IsAsciiDigit(c)

\* char::is_alphanumeric: is_alphabetic or is_numeric
IsAlphanumeric(c) == IsAlphabetic(c) \/ IsNumeric(c)

-----------------------------------------------------------------------------
(* Natural numbers of any size, for the arithmetic of f64 *)

\* A natural number is the sequence of its digits in base 2^15, the least
\* significant first and the last one not 0; <<>> is zero.  The operators
\* take and give such sequences.
Limb == 2^15

Max(a, b) == IF a >= b THEN a ELSE b

Min(a, b) == IF a <= b THEN a ELSE b

\* the digit at place i, 0 beyond the sequence on either side
BigLimb(a, i) == IF i \in DOMAIN a THEN a[i] ELSE 0

\* a sequence of digits without its leading zeros
BigTrim(a) ==
    SubSeq(a, 1, CHOOSE n \in 0..Len(a) :
                     (n = 0 \/ a[n] /= 0) /\ \A j \in (n + 1)..Len(a) : a[j] = 0)

\* n in 0..2^31-1 as a natural number, and back when it is below 2^30
BigFromInt(n) == BigTrim(<<n % Limb, (n \div Limb) % Limb, n \div (Limb * Limb)>>)

BigToInt(a) == BigLimb(a, 1) + Limb * BigLimb(a, 2)

\* the carry into place i when the digit sums s, each below 2 * Limb - 1,
\* are brought back under Limb
BigCarry(s, i) ==
    IF \E j \in 1..(i - 1) : s[j] >= Limb /\ \A k \in (j + 1)..(i - 1) : s[k] = Limb - 1
    THEN 1 ELSE 0

BigAdd(a, b) ==
    Now([i \in 1..(Max(Len(a), Len(b)) + 1) |-> BigLimb(a, i) + BigLimb(b, i)], LAMBDA s :
    BigTrim([i \in DOMAIN s |-> (s[i] + BigCarry(s, i)) % Limb]))

\* the borrow from place i when the digit differences d are brought back
\* to 0..Limb-1
BigBorrow(d, i) ==
    IF \E j \in 1..(i - 1) : d[j] < 0 /\ \A k \in (j + 1)..(i - 1) : d[k] = 0
    THEN 1 ELSE 0

\* a - b for a >= b
BigSub(a, b) ==
    Now([i \in 1..Len(a) |-> a[i] - BigLimb(b, i)], LAMBDA d :
    BigTrim([i \in DOMAIN d |-> (d[i] - BigBorrow(d, i) + Limb) % Limb]))

BigLess(a, b) ==
    \/ Len(a) < Len(b)
    \/ /\ Len(a) = Len(b)
       /\ \E i \in DOMAIN a : a[i] < b[i] /\ \A j \in (i + 1)..Len(a) : a[j] = b[j]

\* a * 2^n
BigShl(a, n) ==
    BigTrim([i \in 1..(Len(a) + (n \div 15) + 1) |->
        (BigLimb(a, i - (n \div 15)) % 2^(15 - (n % 15))) * 2^(n % 15)
            + (BigLimb(a, i - (n \div 15) - 1) \div 2^(15 - (n % 15)))])

\* a \div 2^n
BigShr(a, n) ==
    BigTrim([i \in 1..Len(a) |->
        (BigLimb(a, i + (n \div 15)) \div 2^(n % 15))
            + (BigLimb(a, i + (n \div 15) + 1) % 2^(n % 15)) * 2^(15 - (n % 15))])

\* how many binary digits a has
BigBitLen(a) ==
    IF a = <<>> THEN 0
    ELSE 15 * (Len(a) - 1) + (CHOOSE k \in 1..15 : a[Len(a)] \div 2^(k - 1) = 1)

\* the binary digit of a at place i, the lowest being place 0
BigBit(a, i) == (BigLimb(a, (i \div 15) + 1) \div 2^(i % 15)) % 2

\* the n lowest binary digits of a are all 0
BigLowZero(a, n) ==
    /\ \A i \in 1..(n \div 15) : BigLimb(a, i) = 0
    /\ BigLimb(a, (n \div 15) + 1) % 2^(n % 15) = 0

\* how many 0 binary digits a ends with, for a above zero
BigTrailingZeros(a) ==
    Now(CHOOSE i \in DOMAIN a : a[i] /= 0 /\ \A j \in 1..(i - 1) : a[j] = 0, LAMBDA i :
        15 * (i - 1) + (CHOOSE k \in 0..14 : a[i] % 2^(k + 1) = 2^k))

\* a * k for k in 0..Limb-1
BigMulSmall(a, k) ==
    Now(BigTrim([i \in DOMAIN a |-> (a[i] * k) % Limb]), LAMBDA low :
    Now(BigTrim(<<0>> \o [i \in DOMAIN a |-> (a[i] * k) \div Limb]), LAMBDA high :
    BigAdd(low, high)))

RECURSIVE BigMul(_, _)
\* a * b, by the halves of b
BigMul(a, b) ==
    IF Len(b) = 0 THEN <<>>
    ELSE IF Len(b) = 1 THEN BigMulSmall(a, b[1])
    ELSE Now(BigMul(a, BigTrim(SubSeq(b, 1, Len(b) \div 2))), LAMBDA low :
         Now(BigMul(a, SubSeq(b, (Len(b) \div 2) + 1, Len(b))), LAMBDA high :
         Now(BigShl(high, 15 * (Len(b) \div 2)), LAMBDA shifted :
         BigAdd(low, shifted))))

RECURSIVE BigPow10(_)
\* 10^k, by the halves of k
BigPow10(k) ==
    IF k <= 9 THEN BigFromInt(10^k)
    ELSE Now(BigPow10(k \div 2), LAMBDA low :
         Now(BigPow10(k - (k \div 2)), LAMBDA high :
         BigMul(low, high)))

RECURSIVE BigDivSmallFrom(_, _, _)
\* the digits of (r * Limb^Len(a) + a) \div k, Len(a) of them, and the
\* remainder, for k in 1..Limb-1 and r below k; by the halves of a
BigDivSmallFrom(a, k, r) ==
    IF Len(a) = 0 THEN [q |-> <<>>, r |-> r]
    ELSE IF Len(a) = 1
    THEN [q |-> <<(r * Limb + a[1]) \div k>>, r |-> (r * Limb + a[1]) % k]
    ELSE Now(BigDivSmallFrom(SubSeq(a, (Len(a) \div 2) + 1, Len(a)), k, r), LAMBDA high :
         Now(BigDivSmallFrom(SubSeq(a, 1, Len(a) \div 2), k, high.r), LAMBDA low :
         [q |-> low.q \o high.q, r |-> low.r]))

\* a \div k and a % k for k in 1..Limb-1
BigDivSmall(a, k) ==
    Now(BigDivSmallFrom(a, k, 0), LAMBDA d : [q |-> BigTrim(d.q), r |-> d.r])

\* the greatest q with b * q <= r, given that it is below Limb and that the
\* leading digit of b, which has n digits, is Limb \div 2 or more: the
\* quotient of the leading digits is q, q + 1 or q + 2
BigQuotientDigit(r, b, n) ==
    Now(Min(Limb - 1, (BigLimb(r, n + 1) * Limb + BigLimb(r, n)) \div b[n]), LAMBDA q :
    Now(BigMulSmall(b, q), LAMBDA x :
    IF ~BigLess(r, x) THEN q
    ELSE Now(BigSub(x, b), LAMBDA y :
         IF ~BigLess(r, y) THEN q - 1 ELSE q - 2)))

RECURSIVE BigDivLoop(_, _, _, _)
\* long division: w.r is the remainder so far, below b, the digits a[1..i]
\* are still to be taken down, w.q holds the digits of the quotient found
BigDivLoop(a, b, i, w) ==
    IF i = 0 THEN w
    ELSE Now(BigTrim(<<a[i]>> \o w.r), LAMBDA r :
         Now(BigQuotientDigit(r, b, Len(b)), LAMBDA d :
         Now(BigMulSmall(b, d), LAMBDA x :
         Now([q |-> <<d>> \o w.q, r |-> BigSub(r, x)], LAMBDA next :
         BigDivLoop(a, b, i - 1, next)))))

\* a \div b and a % b for b above zero with a leading digit of Limb \div 2
\* or more
BigDivScaled(a, b) ==
    IF Len(a) < Len(b) THEN [q |-> <<>>, r |-> a]
    ELSE Now(BigDivLoop(a, b, Len(a) - Len(b) + 1,
                        [q |-> <<>>,
                         r |-> BigTrim(SubSeq(a, Len(a) - Len(b) + 2, Len(a)))]),
             LAMBDA w : [q |-> BigTrim(w.q), r |-> w.r])

\* a \div b for b above zero, and whether the division leaves no
\* remainder: both are scaled by the power of two that brings the leading
\* digit of b to Limb \div 2 or more
BigDiv(a, b) ==
    Now(BigShl(a, 15 * Len(b) - BigBitLen(b)), LAMBDA x :
    Now(BigShl(b, 15 * Len(b) - BigBitLen(b)), LAMBDA y :
    Now(BigDivScaled(x, y), LAMBDA w :
    [q |-> w.q, exact |-> w.r = <<>>])))

RECURSIVE NatToString(_)
\* the decimal digits of n in 0..2^31-1, and of an integer with its sign
NatToString(n) ==
    IF n < 10 THEN Digits[n + 1] ELSE NatToString(n \div 10) \o Digits[(n % 10) + 1]

IntToString(n) == IF n < 0 THEN "-" \o NatToString(-n) ELSE NatToString(n)

RECURSIVE BigDigits(_)
\* the decimal digits of a, four at a time
BigDigits(a) ==
    IF Len(a) <= 1 THEN NatToString(BigToInt(a))
    ELSE Now(BigDivSmall(a, 10000), LAMBDA d :
         Now(BigDigits(d.q), LAMBDA high :
         high \o Digits[(d.r \div 1000) + 1] \o Digits[((d.r \div 100) % 10) + 1]
              \o Digits[((d.r \div 10) % 10) + 1] \o Digits[(d.r % 10) + 1]))

RECURSIVE BigFromDecimal(_, _, _)
\* the natural number the decimal digits source[from + 1 .. to] denote, a
\* "." among them skipped; by halves
BigFromDecimal(source, from, to) ==
    IF to - from <= 1
    THEN (IF to - from = 1 /\ source[to] /= "." THEN BigFromInt(DigitValue(source[to]))
          ELSE <<>>)
    ELSE Now(BigFromDecimal(source, from, from + ((to - from) \div 2)), LAMBDA high :
         Now(BigFromDecimal(source, from + ((to - from) \div 2), to), LAMBDA low :
         Now(BigPow10(Cardinality({i \in (from + ((to - from) \div 2) + 1)..to :
                                      source[i] /= "."})), LAMBDA scale :
         Now(BigMul(high, scale), LAMBDA scaled :
         BigAdd(scaled, low)))))

-----------------------------------------------------------------------------
(* f64: IEEE-754 binary64 with round to nearest, ties to even *)

\* A value of f64 is a record with one form for every value.  c = "int": an
\* integer n of magnitude below 2^30 (0 is the positive zero).  c = "fin":
\* any other finite value, m * 2^e with m odd and s TRUE for the negative
\* sign; the negative zero has m = <<>> and e = 0.  c = "inf": an infinity of
\* sign s.  c = "nan": NaN, which has no sign and no payload here, as no
\* operation of the program tells two NaNs apart.
F64(c, s, m, e) == [t |-> "Number", c |-> c, s |-> s, m |-> m, e |-> e, n |-> 0]

F64Int(n) == [t |-> "Number", c |-> "int", s |-> FALSE, m |-> <<>>, e |-> 0, n |-> n]

F64NaN == F64("nan", FALSE, <<>>, 0)

F64Inf(s) == F64("inf", s, <<>>, 0)

F64Zero(s) == IF s THEN F64("fin", TRUE, <<>>, 0) ELSE F64Int(0)

F64IsNaN(a) == a.c = "nan"

F64IsInf(a) == a.c = "inf"

F64IsZero(a) == (a.c = "int" /\ a.n = 0) \/ (a.c = "fin" /\ a.m = <<>>)

\* the sign, the magnitude as m * 2^e (m of either parity) and the place of
\* the leading binary digit, of a finite value
F64Sign(a) == IF a.c = "int" THEN a.n < 0 ELSE a.s

F64Mantissa(a) == IF a.c = "int" THEN BigFromInt(IF a.n < 0 THEN -a.n ELSE a.n) ELSE a.m

F64Exponent(a) == IF a.c = "int" THEN 0 ELSE a.e

\* the finite value m * 2^e for m odd
F64Odd(s, m, e) ==
    IF e >= 0 /\ BigBitLen(m) + e <= 30
    THEN F64Int((IF s THEN -1 ELSE 1) * BigToInt(m) * 2^e)
    ELSE F64("fin", s, m, e)

\* the finite value k * 2^q for k above zero, or the infinity when it is
\* 2^1024 or more
F64Finite(s, k, q) ==
    IF BigBitLen(k) + q > 1024 THEN F64Inf(s)
    ELSE Now(BigTrailingZeros(k), LAMBDA z :
         Now(BigShr(k, z), LAMBDA m :
         F64Odd(s, m, q + z)))

\* m * 2^e cut to d fewer binary digits, the nearest and in a tie the even
\* one; sticky says that the exact value is a little above m * 2^e
F64Cut(s, m, e, d, sticky) ==
    Now(BigShr(m, d), LAMBDA k :
    Now(IF BigBit(m, d - 1) = 1
              /\ (sticky \/ ~BigLowZero(m, d - 1) \/ BigBit(k, 0) = 1)
        THEN BigAdd(k, <<1>>) ELSE k, LAMBDA r :
    IF r = <<>> THEN F64Zero(s) ELSE F64Finite(s, r, e + d)))

\* The f64 nearest to m * 2^e: 53 binary digits, fewer below 2^-1022 where
\* the last place is 2^-1074.  With sticky, m has 55 digits or more.
F64Round(s, m, e, sticky) ==
    IF m = <<>> THEN F64Zero(s)
    ELSE Now(Max(BigBitLen(m) + e - 53, -1074) - e, LAMBDA d :
         IF d <= 0 THEN F64Finite(s, m, e) ELSE F64Cut(s, m, e, d, sticky))

\* the integer n, for n in -(2^31-1)..2^31-1
F64FromInt(n) ==
    IF -(2^30) < n /\ n < 2^30 THEN F64Int(n)
    ELSE F64Finite(n < 0, BigFromInt(IF n < 0 THEN -n ELSE n), 0)

\* -a
F64Neg(a) ==
    IF a.c = "int" THEN (IF a.n = 0 THEN F64Zero(TRUE) ELSE F64Int(-a.n))
    ELSE IF F64IsNaN(a) THEN a
    ELSE IF a.c = "fin" /\ a.m = <<>> THEN F64Zero(~a.s)
    ELSE [a EXCEPT !.s = ~@]

\* x * 2^e + y * 2^e with the signs s and t, for x and y above zero
F64AddAligned(s, x, t, y, e) ==
    IF s = t THEN Now(BigAdd(x, y), LAMBDA sum : F64Round(s, sum, e, FALSE))
    ELSE IF x = y THEN F64Zero(FALSE)
    ELSE IF BigLess(x, y) THEN Now(BigSub(y, x), LAMBDA diff : F64Round(t, diff, e, FALSE))
    ELSE Now(BigSub(x, y), LAMBDA diff : F64Round(s, diff, e, FALSE))

\* the sum of two finite values that are not zero
F64AddFinite(a, b) ==
    Now(Min(F64Exponent(a), F64Exponent(b)), LAMBDA e :
    Now(BigShl(F64Mantissa(a), F64Exponent(a) - e), LAMBDA x :
    Now(BigShl(F64Mantissa(b), F64Exponent(b) - e), LAMBDA y :
    F64AddAligned(F64Sign(a), x, F64Sign(b), y, e))))

\* a + b
F64Add(a, b) ==
    IF a.c = "int" /\ b.c = "int" THEN F64FromInt(a.n + b.n)
    ELSE IF F64IsNaN(a) \/ F64IsNaN(b) THEN F64NaN
    ELSE IF F64IsInf(a) THEN (IF F64IsInf(b) /\ a.s /= b.s THEN F64NaN ELSE a)
    ELSE IF F64IsInf(b) THEN b
    ELSE IF F64IsZero(a)
    THEN (IF F64IsZero(b) THEN F64Zero(F64Sign(a) /\ F64Sign(b)) ELSE b)
    ELSE IF F64IsZero(b) THEN a
    ELSE F64AddFinite(a, b)

\* a - b
F64Sub(a, b) ==
    IF a.c = "int" /\ b.c = "int" THEN F64FromInt(a.n - b.n)
    ELSE Now(F64Neg(b), LAMBDA c : F64Add(a, c))

\* a * b
F64Mul(a, b) ==
    IF F64IsNaN(a) \/ F64IsNaN(b) THEN F64NaN
    ELSE IF F64IsInf(a) \/ F64IsInf(b)
    THEN (IF F64IsZero(a) \/ F64IsZero(b) THEN F64NaN
          ELSE F64Inf(F64Sign(a) /= F64Sign(b)))
    ELSE Now(BigMul(F64Mantissa(a), F64Mantissa(b)), LAMBDA m :
         F64Round(F64Sign(a) /= F64Sign(b), m, F64Exponent(a) + F64Exponent(b), FALSE))

\* the quotient of x * 2^e by y for x and y above zero: 55 binary digits
\* of it or more, and whether the division left a remainder
F64DivFinite(s, x, y, e) ==
    Now(Max(0, 55 + BigBitLen(y) - BigBitLen(x)), LAMBDA n :
    Now(BigShl(x, n), LAMBDA scaled :
    Now(BigDiv(scaled, y), LAMBDA d :
    F64Round(s, d.q, e - n, ~d.exact))))

\* a / b
F64Div(a, b) ==
    IF F64IsNaN(a) \/ F64IsNaN(b) THEN F64NaN
    ELSE IF F64IsInf(a)
    THEN (IF F64IsInf(b) THEN F64NaN ELSE F64Inf(a.s /= F64Sign(b)))
    ELSE IF F64IsInf(b) THEN F64Zero(F64Sign(a) /= b.s)
    ELSE IF F64IsZero(b)
    THEN (IF F64IsZero(a) THEN F64NaN ELSE F64Inf(F64Sign(a) /= F64Sign(b)))
    ELSE IF F64IsZero(a) THEN F64Zero(F64Sign(a) /= F64Sign(b))
    ELSE F64DivFinite(F64Sign(a) /= F64Sign(b), F64Mantissa(a), F64Mantissa(b),
                      F64Exponent(a) - F64Exponent(b))

\* |a| < |b| for two finite values that are not zero
F64MagnitudeLess(a, b) ==
    Now(BigBitLen(F64Mantissa(a)) + F64Exponent(a), LAMBDA top_a :
    Now(BigBitLen(F64Mantissa(b)) + F64Exponent(b), LAMBDA top_b :
    IF top_a /= top_b THEN top_a < top_b
    ELSE Now(Min(F64Exponent(a), F64Exponent(b)), LAMBDA e :
         Now(BigShl(F64Mantissa(a), F64Exponent(a) - e), LAMBDA x :
         Now(BigShl(F64Mantissa(b), F64Exponent(b) - e), LAMBDA y :
         BigLess(x, y))))))

\* -1, 0 or 1 as the value is below zero, zero or above
F64Signum(a) == IF F64IsZero(a) THEN 0 ELSE IF F64Sign(a) THEN -1 ELSE 1

\* a < b: false when either is NaN, and -0 is not less than 0
F64Lt(a, b) ==
    IF a.c = "int" /\ b.c = "int" THEN a.n < b.n
    ELSE IF F64IsNaN(a) \/ F64IsNaN(b) THEN FALSE
    ELSE IF F64Signum(a) /= F64Signum(b) THEN F64Signum(a) < F64Signum(b)
    ELSE IF F64Signum(a) = 0 THEN FALSE
    ELSE IF F64IsInf(a) \/ F64IsInf(b) THEN ~F64IsInf(IF F64Sign(a) THEN b ELSE a)
    ELSE IF F64Sign(a) THEN F64MagnitudeLess(b, a)
    ELSE F64MagnitudeLess(a, b)

\* a == b: false when either is NaN, and -0 equals 0
F64Eq(a, b) ==
    /\ ~F64IsNaN(a)
    /\ ~F64IsNaN(b)
    /\ (a = b \/ (F64IsZero(a) /\ F64IsZero(b)))

\* a <= b
F64Le(a, b) == F64Lt(a, b) \/ F64Eq(a, b)

\* f64::fract(self) == 0.0: the value is finite and an integer (for an
\* infinity fract is inf - inf, NaN)
F64FractIsZero(a) == a.c = "int" \/ (a.c = "fin" /\ a.e >= 0)

\* `as isize` on a finite integer: the integer, or the nearest end of
\* isize when it is beyond -2^63..2^63-1
F64AsIsize(a) ==
    IF a.c = "int" THEN IntToString(a.n)
    ELSE IF a.m = <<>> THEN "0"
    ELSE IF BigBitLen(a.m) + a.e > 63
    THEN (IF a.s THEN "-9223372036854775808" ELSE "9223372036854775807")
    ELSE Now(BigShl(a.m, a.e), LAMBDA k :
         Now(BigDigits(k), LAMBDA digits :
         (IF a.s THEN "-" ELSE "") \o digits))

\* A finite value v that is no integer is m / 2^f with m odd and f > 0, and
\* x is m * 10^t.  The decimal with t places next below v, d / 10^t, has
\* for d the integer part of v * 10^t.
F64Lower(x, f) == BigShr(x, f)

\* the place of the last of v's 53 binary digits: the f64s next to v are
\* 2^u away, but the one below a power of two (m = 1) above 2^-1022 is half
\* as far
F64LastPlace(m, f) == Max(BigBitLen(m) - f - 53, -1074)

F64NearBelow(m, f) == m = <<1>> /\ BigBitLen(m) - f - 53 > -1074

\* d / 10^t reads back as v: it is less than half the way to the next f64
\* on its side, or just half the way when the last of v's 53 digits is even
\* (a tie rounds to the even one).  y is d * 2^f, to be held against x, and
\* both sides are in units of 2^(u - 2) / 10^t, u the last place.
F64ReadsBack(m, f, t, x, y) ==
    Now(IF BigLess(x, y) THEN BigSub(y, x) ELSE BigSub(x, y), LAMBDA distance :
    Now(BigShl(distance, 2 - F64LastPlace(m, f) - f), LAMBDA scaled :
    Now(BigMulSmall(BigPow10(t), IF F64NearBelow(m, f) /\ BigLess(y, x) THEN 1 ELSE 2),
        LAMBDA half :
    BigLess(scaled, half) \/ (scaled = half /\ F64LastPlace(m, f) + f < 0))))

\* of the decimals with t places next below v (digits d) and next above
\* (digits d + 1), the digits of the one that reads back as v, the nearer to
\* v when both do and the one above when they are as near, <<>> when
\* neither does
F64Nearest(m, f, t, x, d) ==
    Now(BigShl(d, f), LAMBDA below :
    Now(BigAdd(d, <<1>>), LAMBDA up :
    Now(BigShl(up, f), LAMBDA above :
    IF F64ReadsBack(m, f, t, x, below)
    THEN (IF F64ReadsBack(m, f, t, x, above)
             /\ ~BigLess(BigSub(x, below), BigSub(above, x))
          THEN up ELSE d)
    ELSE IF F64ReadsBack(m, f, t, x, above) THEN up
    ELSE <<>>)))

F64Candidate(m, f, t) ==
    Now(BigPow10(t), LAMBDA scale :
    Now(BigMul(m, scale), LAMBDA x :
    Now(BigShr(x, f), LAMBDA d :
    F64Nearest(m, f, t, x, d))))

\* v * 10^k is 1 or more
F64Reaches(m, f, k) ==
    k >= 0 /\ Now(BigPow10(k), LAMBDA scale :
              Now(BigMul(m, scale), LAMBDA x : BigBitLen(x) > f))

\* the decimal place of the first digit of v that is not 0, for v below 1:
\* the least k with v * 10^k >= 1, which is near (f - BigBitLen(m)) * log10(2)
F64FirstPlace(m, f) ==
    Now(((f - BigBitLen(m)) * 30103) \div 100000, LAMBDA z :
    CHOOSE k \in z..(z + 2) : F64Reaches(m, f, k) /\ ~F64Reaches(m, f, k - 1))

RECURSIVE ZeroString(_)
\* n zeros
ZeroString(n) ==
    IF n <= 20 THEN SubSeq("00000000000000000000", 1, n)
    ELSE ZeroString(n \div 2) \o ZeroString(n - (n \div 2))

\* d / 10^t written without an exponent, for t > 0
F64Decimal(d, t) ==
    Now(BigDigits(d), LAMBDA digits :
    IF Len(digits) > t
    THEN SubSeq(digits, 1, Len(digits) - t) \o "."
             \o SubSeq(digits, Len(digits) - t + 1, Len(digits))
    ELSE "0." \o ZeroString(t - Len(digits)) \o digits)

\* The numbers of decimal places to try: 17 significant digits always read
\* back, an integer never does; below 1 the first digit may be rounded up
\* into the place before it.
F64Places(m, f) ==
    IF BigBitLen(m) <= f
    THEN Now(F64FirstPlace(m, f), LAMBDA first : Max(first - 1, 1)..(first + 16))
    ELSE Now(BigShr(m, f), LAMBDA whole : 1..(17 - Len(BigDigits(whole))))

\* impl Display for f64 on a finite value that is no integer: the shortest
\* decimal that reads back as the value, and of those the nearest to it
F64Shortest(m, f) ==
    Now(F64Places(m, f), LAMBDA places :
    Now({t \in places : F64Candidate(m, f, t) /= <<>>}, LAMBDA fit :
    Now(CHOOSE t \in fit : \A u \in fit : t <= u, LAMBDA t :
    Now(F64Candidate(m, f, t), LAMBDA d :
    F64Decimal(d, t)))))

\* impl Display for f64, for a value whose fract() is not 0.0
F64Display(a) ==
    IF F64IsNaN(a) THEN "NaN"
    ELSE IF F64IsInf(a) THEN (IF a.s THEN "-inf" ELSE "inf")
    ELSE Now(F64Shortest(a.m, -a.e), LAMBDA digits : (IF a.s THEN "-" ELSE "") \o digits)

\* str::parse::<f64> on digits with `places` of them after the point: the
\* f64 nearest to digits / 10^places
F64Parse(digits, places) ==
    IF digits = <<>> THEN F64Zero(FALSE)
    ELSE IF places = 0 THEN F64Round(FALSE, digits, 0, FALSE)
    ELSE Now(BigPow10(places), LAMBDA scale :
         F64DivFinite(FALSE, digits, scale, 0))

-----------------------------------------------------------------------------
(* Scanner (src/src/lox/scanner.rs) *)

KEYWORDS ==
    [and |-> "And", class |-> "Class", else |-> "Else", false |-> "False",
     for |-> "For", fun |-> "Fun", if |-> "If", nil |-> "Nil", or |-> "Or",
     print |-> "Print", return |-> "Return", super |-> "Super",
     this |-> "This", true |-> "True", var |-> "Var", while |-> "While"]

check_keyword(key) == IF key \in DOMAIN KEYWORDS THEN Some(KEYWORDS[key]) ELSE None

\* The diagnostic columns (col, line_start) only feed the text of a ScanError.
ScannerNew(source) ==
    [had_error |-> FALSE, source |-> source, tokens |-> <<>>,
     start |-> 0, current |-> 0, line |-> 1, errors |-> <<>>]

\* self.chars.peek(): the next character, if any.
ScanPeek(s) == IF s.current < Len(s.source) THEN Some(s.source[s.current + 1]) ELSE None

\* self.chars.peek_nth(1)
ScanPeekNth1(s) ==
    IF s.current + 1 < Len(s.source) THEN Some(s.source[s.current + 2]) ELSE None

RECURSIVE Slice(_, _, _)
\* &source[from..to] as text (from, to are 0-based offsets, to exclusive)
Slice(source, from, to) ==
    IF from >= to THEN "" ELSE source[from + 1] \o Slice(source, from + 1, to)

lexeme(s) == Slice(s.source, s.start, s.current)

\* record_error: sets had_error and writes the ScanError to stderr
record_error(s, msg) == [s EXCEPT !.had_error = TRUE, !.errors = Append(@, msg)]

add_token(s, t_type, literal) ==
    [s EXCEPT !.tokens = Append(@,
        [t_type |-> t_type, lexeme |-> Slice(s.source, s.start, s.current),
         literal |-> literal, line |-> s.line])]

ScanAdvance(s) == IF s.current < Len(s.source) THEN [s EXCEPT !.current = @ + 1] ELSE s

\* The predicates handed to Scanner::matches.
MatchPred(cls, c) ==
    CASE cls = "ident" -> IsAlphanumeric(c) \/ c = "_"
      [] cls = "digit" -> IsAsciiDigit(c)
      [] cls = "notnl" -> c /= "\n"
      [] cls = "notquote" -> c /= "\""
      [] cls = "eq" -> c = "="
      [] cls = "slash" -> c = "/"

\* matches(pred).is_some()
Matches(s, cls) == IsSome(ScanPeek(s)) /\ MatchPred(cls, Unwrap(ScanPeek(s)))

RECURSIVE MatchWhile(_, _)
\* while self.matches(pred).is_some() {}
MatchWhile(s, cls) ==
    IF Matches(s, cls) THEN MatchWhile(ScanAdvance(s), cls) ELSE s

RECURSIVE StringBody(_)
\* the loop of Scanner::string: consume up to the closing quote, counting lines
StringBody(s) ==
    IF Matches(s, "notquote")
    THEN LET c == Unwrap(ScanPeek(s))
             s1 == ScanAdvance(s)
         IN StringBody(IF c = "\n" THEN [s1 EXCEPT !.line = @ + 1] ELSE s1)
    ELSE s

ScanString(s) ==
    LET s1 == StringBody(s) IN
    IF IsSome(ScanPeek(s1))
    THEN LET s2 == ScanAdvance(s1) IN
         add_token(s2, "String",
             Some([t |-> "String", s |-> Slice(s2.source, s2.start + 1, s2.current - 1)]))
    ELSE record_error(s1, "Unterminated string: " \o lexeme(s1) \o ".")

ScanIdentifier(s) ==
    LET s1 == MatchWhile(s, "ident")
        kw == check_keyword(lexeme(s1))
    IN IF IsSome(kw) THEN add_token(s1, Unwrap(kw), None)
       ELSE add_token(s1, "Identifier", None)

\* lexeme.parse::<f64>() of digits [ "." digits ]: always Ok, the f64 nearest
\* to the decimal
ParseF64(s) ==
    Now(MatchWhile([s EXCEPT !.current = s.start], "digit").current, LAMBDA int_end :
    Now(BigFromDecimal(s.source, s.start, s.current), LAMBDA digits :
    F64Parse(digits, IF int_end < s.current THEN s.current - int_end - 1 ELSE 0)))

ScanNumber(s) ==
    LET s1 == MatchWhile(s, "digit")
        s2 == IF ScanPeek(s1) = Some(".")
                 /\ IsSome(ScanPeekNth1(s1)) /\ IsAsciiDigit(Unwrap(ScanPeekNth1(s1)))
              THEN MatchWhile(ScanAdvance(s1), "digit")
              ELSE s1
    IN add_token(s2, "Number", Some(ParseF64(s2)))

\* '!', '=', '<', '>' followed by an optional '='
ScanOneOrTwo(s, two, one) ==
    IF Matches(s, "eq") THEN add_token(ScanAdvance(s), two, None)
    ELSE add_token(s, one, None)

SingleCharTokens ==
    [c \in {"(", ")", "{", "}", ",", ".", "-", "+", ";", "*"} |->
        CASE c = "(" -> "LeftParen" [] c = ")" -> "RightParen"
          [] c = "{" -> "LeftBrace" [] c = "}" -> "RightBrace"
          [] c = "," -> "Comma" [] c = "." -> "Dot"
          [] c = "-" -> "Minus" [] c = "+" -> "Plus"
          [] c = ";" -> "Semicolon" [] c = "*" -> "Star"]

scan_token(s0) ==
    LET c == Unwrap(ScanPeek(s0))
        s == ScanAdvance(s0)
    IN CASE c \in DOMAIN SingleCharTokens -> add_token(s, SingleCharTokens[c], None)
         [] c = "/" -> IF Matches(s, "slash")
                       THEN MatchWhile(ScanAdvance(s), "notnl")
                       ELSE add_token(s, "Slash", None)
         [] c = "!" -> ScanOneOrTwo(s, "BangEqual", "Bang")
         [] c = "=" -> ScanOneOrTwo(s, "EqualEqual", "Equal")
         [] c = "<" -> ScanOneOrTwo(s, "LessEqual", "Less")
         [] c = ">" -> ScanOneOrTwo(s, "GreaterEqual", "Greater")
         [] IsAlphabetic(c) -> ScanIdentifier(s)
         [] IsAsciiDigit(c) -> ScanNumber(s)
         [] c = "\"" -> ScanString(s)
         [] c = "\n" -> [s EXCEPT !.line = @ + 1]
         [] c \in {"\t", " ", "\r"} -> s
         [] OTHER -> record_error(s, "Unexpected \"" \o c \o "\" character.")

RECURSIVE ScanRoundsToFirstError(_, _)
\* the rounds left after `half`, of a loop of scan_tokens that leaves at the
\* first error
ScanRestToFirstError(half, n) ==
    IF half.had_error THEN half ELSE ScanRoundsToFirstError(half, n)

\* up to n rounds of that loop
ScanRoundsToFirstError(s, n) ==
    IF n > 1
    THEN ScanRestToFirstError(ScanRoundsToFirstError(s, n \div 2), n - n \div 2)
    ELSE IF s.current < Len(s.source) THEN scan_token([s EXCEPT !.start = s.current])
    ELSE s

\* the loop of scan_tokens leaving at the first error
ScanLoopToFirstError(s) == ScanRoundsToFirstError(s, Len(s.source) + 1)

RECURSIVE ScanRounds(_, _)
\* the rounds left after `half`
ScanRest(half, n) == IF half.current < Len(half.source) THEN ScanRounds(half, n) ELSE half

\* up to n rounds of the loop of scan_tokens (the first half of them, then
\* the rest): a round is taken while self.chars.peek().is_some() and is
\* self.start = self.current; self.scan_token();
ScanRounds(s, n) ==
    IF n > 1 THEN ScanRest(ScanRounds(s, n \div 2), n - n \div 2)
    ELSE IF s.current < Len(s.source) THEN scan_token([s EXCEPT !.start = s.current])
    ELSE s

\* while self.chars.peek().is_some() { self.start = self.current; self.scan_token(); }
\* every round takes a character or more, so there are at most as many
\* rounds as the source has characters
ScanLoop(s) == ScanRounds(s, Len(s.source) + 1)

\* Scanner::scan_tokens: Ok(tokens) or Err
scan_tokens(source) ==
    LET s == add_token(ScanLoop(ScannerNew(source)), "Eof", None) IN
    [ok |-> ~s.had_error, tokens |-> s.tokens, errors |-> s.errors]

-----------------------------------------------------------------------------
(* Parser (src/src/lox/parser.rs) *)

\* The most parameters a declaration and the most arguments a call may have.
MaxParams == 255

MaxArguments == 255

\* A ParserResult<T>: the parser after the call and Ok(v) or Err(ParseError).
\* overflow marks a call whose recursion never returns (the stack overflows).
POk(p, v) == [p |-> p, ok |-> TRUE, v |-> v, err |-> None, overflow |-> FALSE]

PErr(p, token, msg) ==
    [p |-> p, ok |-> FALSE, v |-> None, err |-> Some([token |-> token, msg |-> msg]),
     overflow |-> FALSE]

POverflow(p) == [p |-> p, ok |-> FALSE, v |-> None, err |-> None, overflow |-> TRUE]

ParserNew(tokens, next_id) == [tokens |-> tokens, current |-> 0, next_id |-> next_id]

peek(p) == p.tokens[p.current + 1]

previous(p) == p.tokens[p.current]

is_at_end(p) == peek(p).t_type = "Eof"

advance(p) == IF ~is_at_end(p) THEN [p EXCEPT !.current = @ + 1] ELSE p

check(p, t_type) == IF is_at_end(p) THEN FALSE ELSE peek(p).t_type = t_type

\* match_t_types: whether it matched; when it did, the parser has advanced
match_t_types(p, t_types) == \E t \in t_types : check(p, t)

consume(p, t_type, msg) ==
    IF check(p, t_type) THEN POk(advance(p), previous(advance(p)))
    ELSE PErr(p, peek(p), msg)

\* a load of NEXT_EXPR_ID that leaves the counter as it is
FetchAddIdLoad(p) == p

\* NEXT_EXPR_ID.fetch_add(1, Ordering::Relaxed)
FetchAddId(p) == [p EXCEPT !.next_id = @ + 1]

RECURSIVE SyncLoop(_)
SyncLoop(p) ==
    IF is_at_end(p) THEN p
    ELSE IF previous(p).t_type = "Semicolon" THEN p
    ELSE IF peek(p).t_type \in {"Class", "For", "Fun", "If", "Print", "Return", "Var", "While"}
         THEN p
    ELSE SyncLoop(advance(p))

synchronize(p) == SyncLoop(advance(p))

RECURSIVE declaration(_), class_declaration(_), MethodLoop(_, _), function(_, _),
          ParamRounds(_, _, _), ParamRuns(_, _, _), var_declaration(_), statement(_), for_statement(_),
          return_statement(_), while_statement(_), if_statement(_), block(_),
          BlockLoop(_, _), print_statement(_), expression_statement(_),
          expression(_), assignment(_), or_expr(_), and_expr(_), equality(_),
          comparison(_), term(_), factor(_), unary(_), call(_), CallLoop(_, _),
          finish_call(_, _), ArgumentRounds(_, _), ArgumentRuns(_, _),
          primary(_), BinaryLoop(_, _, _),
          Operand(_, _), BinaryLevel(_, _)

declaration(p) ==
    IF match_t_types(p, {"Class"}) THEN class_declaration(advance(p))
    ELSE IF match_t_types(p, {"Fun"}) THEN function(advance(p), "function")
    ELSE IF match_t_types(p, {"Var"}) THEN var_declaration(advance(p))
    ELSE statement(p)

\* while !self.check(RightBrace) && !self.is_at_end() { methods.push(function("method")?) }
MethodLoop(p, methods) ==
    IF ~check(p, "RightBrace") /\ ~is_at_end(p)
    THEN Try(function(p, "method"), LAMBDA r : MethodLoop(r.p, Append(methods, r.v.f)))
    ELSE POk(p, methods)

class_declaration(p) ==
    Try(consume(p, "Identifier", "Expect class name."), LAMBDA name :
    Try(IF match_t_types(name.p, {"Less"})
        THEN Try(consume(advance(name.p), "Identifier", "Expect superclass name."),
                 LAMBDA sc : POk(FetchAddId(sc.p),
                                 Some([k |-> "Variable", id |-> sc.p.next_id,
                                       name |-> sc.v])))
        ELSE POk(name.p, None), LAMBDA superclass :
    Try(consume(superclass.p, "LeftBrace", "Expect '{' before class body"), LAMBDA lb :
    Try(MethodLoop(lb.p, <<>>), LAMBDA methods :
    Try(consume(methods.p, "RightBrace", "Expect '}' after class body."), LAMBDA rb :
    POk(rb.p, [k |-> "Class", name |-> name.v, methods |-> methods.v,
               superclass |-> superclass.v]))))))

\* A `loop { .. }` under way: the ParserResult so far and whether the loop
\* goes round again (it does not after a `break` or a `return Err`).
Looping(r, more) == [r |-> r, more |-> more]

\* one round of the loop of Parser::function, the parameters so far in s.r.v
ParamRound(s, name) ==
    IF Len(s.r.v) >= MaxParams
    THEN Looping(PErr(s.r.p, name, "Can't have more than 255 parameters."), FALSE)
    ELSE Let(consume(s.r.p, "Identifier", "Expect parameter name."), LAMBDA r :
         IF ~r.ok THEN Looping(r, FALSE)
         ELSE IF match_t_types(r.p, {"Comma"})
              THEN Looping(POk(advance(r.p), Append(s.r.v, r.v)), TRUE)
              ELSE Looping(POk(r.p, Append(s.r.v, r.v)), FALSE))

\* the rounds left after `half`
ParamRest(half, name, n) == IF half.more THEN ParamRounds(half, name, n) ELSE half

\* up to n rounds of the loop: the first half of them, then the rest
ParamRounds(s, name, n) ==
    IF n > 1 THEN ParamRest(ParamRounds(s, name, n \div 2), name, n - n \div 2)
    ELSE ParamRound(s, name)

\* the runs left after the rounds up to t, the next one of n rounds
ParamNextRun(t, name, n) == IF t.more THEN ParamRuns(t, name, n) ELSE t

\* the rounds of the loop until it is left, taken in runs of n, 2n, 4n, ..
\* rounds
ParamRuns(s, name, n) == ParamNextRun(ParamRounds(s, name, n), name, 2 * n)

\* the loop of Parser::function, left with the parameters or with an error
ParamLoop(p, name, params) == ParamRuns(Looping(POk(p, params), TRUE), name, 1).r

function(p, kind) ==
    Try(consume(p, "Identifier", "Expect " \o kind \o " name."), LAMBDA name :
    Try(consume(name.p, "LeftParen", "Expect '(' after " \o kind \o " name."), LAMBDA lp :
    Try(IF ~check(lp.p, "RightParen") THEN ParamLoop(lp.p, name.v, <<>>)
        ELSE POk(lp.p, <<>>), LAMBDA params :
    Try(consume(params.p, "RightParen", "Expect ')' after parameters."), LAMBDA rp :
    Try(consume(rp.p, "LeftBrace", "Expect '{' before " \o kind \o " body."), LAMBDA lb :
    Try(block(lb.p), LAMBDA body :
    POk(body.p, [k |-> "Function",
                 f |-> [name |-> name.v, params |-> params.v, body |-> body.v]])))))))

\* Ok(Some(rule()?)): the value of an optional clause that is present
Present(r) == Try(r, LAMBDA x : POk(x.p, Some(x.v)))

var_declaration(p) ==
    Try(consume(p, "Identifier", "Expect variable name."), LAMBDA name :
    Try(IF match_t_types(name.p, {"Equal"}) THEN Present(expression(advance(name.p)))
        ELSE POk(name.p, None), LAMBDA initializer :
    Try(consume(initializer.p, "Semicolon", "Expect ';' after variable declaration."),
        LAMBDA semi :
    POk(semi.p, [k |-> "Var", name |-> name.v, initializer |-> initializer.v]))))

statement(p) ==
    LET t == peek(p).t_type IN
    CASE t = "For" -> for_statement(advance(p))
      [] t = "If" -> if_statement(advance(p))
      [] t = "LeftBrace" ->
            Try(block(advance(p)), LAMBDA b : POk(b.p, [k |-> "Block", stmts |-> b.v]))
      [] t = "Print" -> print_statement(advance(p))
      [] t = "Return" -> return_statement(advance(p))
      [] t = "While" -> while_statement(advance(p))
      [] OTHER -> expression_statement(p)

\* the desugaring with the increment put before the body
ForDesugarIncrementFirst(initializer, condition, increment, body) ==
    LET body1 == IF IsSome(increment)
                 THEN [k |-> "Block",
                       stmts |-> <<[k |-> "Expression", expr |-> Unwrap(increment)], body>>]
                 ELSE body
        cond == IF IsSome(condition) THEN Unwrap(condition)
                ELSE [k |-> "Literal", value |-> [t |-> "Bool", b |-> TRUE]]
        body2 == [k |-> "While", condition |-> cond, body |-> body1]
    IN IF IsSome(initializer)
       THEN [k |-> "Block", stmts |-> <<Unwrap(initializer), body2>>]
       ELSE body2

\* for (init; cond; incr) body  becomes  { init; while (cond) { body; incr; } }
ForDesugar(initializer, condition, increment, body) ==
    LET body1 == IF IsSome(increment)
                 THEN [k |-> "Block",
                       stmts |-> <<body, [k |-> "Expression", expr |-> Unwrap(increment)]>>]
                 ELSE body
        cond == IF IsSome(condition) THEN Unwrap(condition)
                ELSE [k |-> "Literal", value |-> [t |-> "Bool", b |-> TRUE]]
        body2 == [k |-> "While", condition |-> cond, body |-> body1]
    IN IF IsSome(initializer)
       THEN [k |-> "Block", stmts |-> <<Unwrap(initializer), body2>>]
       ELSE body2

for_statement(p) ==
    Try(consume(p, "LeftParen", "Expect '(' after 'for'."), LAMBDA lp :
    Try(IF match_t_types(lp.p, {"Semicolon"}) THEN POk(advance(lp.p), None)
        ELSE IF match_t_types(lp.p, {"Var"}) THEN Present(var_declaration(advance(lp.p)))
        ELSE Present(expression_statement(lp.p)), LAMBDA initializer :
    Try(IF check(initializer.p, "Semicolon") THEN POk(initializer.p, None)
        ELSE Present(expression(initializer.p)), LAMBDA condition :
    Try(consume(condition.p, "Semicolon", "Expect ';' after loop condition."), LAMBDA semi :
    Try(IF check(semi.p, "RightParen") THEN POk(semi.p, None)
        ELSE Present(expression(semi.p)), LAMBDA increment :
    Try(consume(increment.p, "RightParen", "Expect ')' after for clauses."), LAMBDA rp :
    Try(statement(rp.p), LAMBDA body :
    POk(body.p, ForDesugar(initializer.v, condition.v, increment.v, body.v)))))))))

return_statement(p) ==
    Try(IF ~check(p, "Semicolon") THEN Present(expression(p)) ELSE POk(p, None),
        LAMBDA value :
    Try(consume(value.p, "Semicolon", "Expect ';' after return value."), LAMBDA semi :
    POk(semi.p, [k |-> "Return", keyword |-> previous(p), value |-> value.v])))

while_statement(p) ==
    Try(consume(p, "LeftParen", "Expect '(' after 'while'."), LAMBDA lp :
    Try(expression(lp.p), LAMBDA condition :
    Try(consume(condition.p, "RightParen", "Expect ')' after condition."), LAMBDA rp :
    Try(statement(rp.p), LAMBDA body :
    POk(body.p, [k |-> "While", condition |-> condition.v, body |-> body.v])))))

if_statement(p) ==
    Try(consume(p, "LeftParen", "Expect '(' after 'if'."), LAMBDA lp :
    Try(expression(lp.p), LAMBDA condition :
    Try(consume(condition.p, "RightParen", "Expect ')' after if condition."), LAMBDA rp :
    Try(statement(rp.p), LAMBDA then_branch :
    Try(IF match_t_types(then_branch.p, {"Else"})
        THEN Present(statement(advance(then_branch.p)))
        ELSE POk(then_branch.p, None), LAMBDA else_branch :
    POk(else_branch.p,
        [k |-> "If", condition |-> condition.v, then_branch |-> then_branch.v,
         else_branch |-> else_branch.v]))))))

\* while !self.check(RightBrace) && !self.is_at_end() { statements.push(declaration()?) }
BlockLoop(p, statements) ==
    IF ~check(p, "RightBrace") /\ ~is_at_end(p)
    THEN Try(declaration(p), LAMBDA r : BlockLoop(r.p, Append(statements, r.v)))
    ELSE POk(p, statements)

block(p) ==
    Try(BlockLoop(p, <<>>), LAMBDA statements :
    Try(consume(statements.p, "RightBrace", "Expect '}' after block."), LAMBDA rb :
    POk(rb.p, statements.v)))

print_statement(p) ==
    Try(expression(p), LAMBDA expr :
    Try(consume(expr.p, "Semicolon", "Expect ';' after value."), LAMBDA semi :
    POk(semi.p, [k |-> "Print", expr |-> expr.v])))

expression_statement(p) ==
    Try(expression(p), LAMBDA expr :
    Try(consume(expr.p, "Semicolon", "Expect ';' after value."), LAMBDA semi :
    POk(semi.p, [k |-> "Expression", expr |-> expr.v])))

expression(p) == assignment(p)

\* the target of `expr = value`: a variable, a property, or an error at `=`
AssignTarget(expr, equals, value) ==
    CASE expr.k = "Variable" ->
            POk(value.p, [k |-> "Assign", id |-> expr.id, name |-> expr.name,
                          value |-> value.v])
      [] expr.k = "Get" ->
            POk(value.p, [k |-> "Set", object |-> expr.object, name |-> expr.name,
                          value |-> value.v])
      [] OTHER -> PErr(value.p, equals, "Invalid assignment target.")

assignment(p) ==
    Try(or_expr(p), LAMBDA expr :
    IF match_t_types(expr.p, {"Equal"})
    THEN Try(assignment(advance(expr.p)),
             LAMBDA value : AssignTarget(expr.v, previous(advance(expr.p)), value))
    ELSE expr)

\* The operators of one left-associative level.
LevelOperators(level) ==
    CASE level = "or" -> {"Or"}
      [] level = "and" -> {"And"}
      [] level = "equality" -> {"BangEqual", "EqualEqual"}
      [] level = "comparison" -> {"Greater", "GreaterEqual", "Less", "LessEqual"}
      [] level = "term" -> {"Minus", "Plus"}
      [] level = "factor" -> {"Slash", "Star"}

\* The operand rule of one left-associative level.
Operand(level, p) ==
    CASE level = "or" -> and_expr(p)
      [] level = "and" -> equality(p)
      [] level = "equality" -> comparison(p)
      [] level = "comparison" -> term(p)
      [] level = "term" -> factor(p)
      [] level = "factor" -> unary(p)

\* while self.match_t_types(ops) { operator = previous(); right = operand()?; expr = ... }
BinaryLoop(level, p, expr) ==
    IF match_t_types(p, LevelOperators(level))
    THEN Try(Operand(level, advance(p)), LAMBDA right :
         BinaryLoop(level, right.p,
             [k |-> IF level \in {"or", "and"} THEN "Logical" ELSE "Binary",
              left |-> expr, operator |-> previous(advance(p)), right |-> right.v]))
    ELSE POk(p, expr)

\* let mut expr = operand()?; followed by the loop, `first` being operand()
BinaryLevel(level, first) ==
    IF first.ok THEN BinaryLoop(level, first.p, first.v) ELSE first

or_expr(p) == BinaryLevel("or", and_expr(p))

and_expr(p) == BinaryLevel("and", equality(p))

equality(p) == BinaryLevel("equality", comparison(p))

comparison(p) == BinaryLevel("comparison", term(p))

term(p) == BinaryLevel("term", factor(p))

factor(p) == BinaryLevel("factor", unary(p))

unary(p) ==
    IF match_t_types(p, {"Bang", "Minus"})
    THEN Try(unary(advance(p)), LAMBDA right :
         POk(right.p, [k |-> "Unary", operator |-> previous(advance(p)),
                       right |-> right.v]))
    ELSE call(p)

CallLoop(p, expr) ==
    IF match_t_types(p, {"LeftParen"})
    THEN Try(finish_call(advance(p), expr), LAMBDA r : CallLoop(r.p, r.v))
    ELSE IF match_t_types(p, {"Dot"})
    THEN Try(consume(advance(p), "Identifier", "Expect property name after '.'."),
             LAMBDA name :
             CallLoop(name.p, [k |-> "Get", object |-> expr, name |-> name.v]))
    ELSE POk(p, expr)

call(p) == Try(primary(p), LAMBDA expr : CallLoop(expr.p, expr.v))

\* one round of the loop of Parser::finish_call, the arguments so far in s.r.v
ArgumentRound(s) ==
    IF Len(s.r.v) >= MaxArguments
    THEN Looping(PErr(s.r.p, peek(s.r.p), "Cannot have more than 255 arguments."), FALSE)
    ELSE Let(expression(s.r.p), LAMBDA r :
         IF ~r.ok THEN Looping(r, FALSE)
         ELSE IF match_t_types(r.p, {"Comma"})
              THEN Looping(POk(advance(r.p), Append(s.r.v, r.v)), TRUE)
              ELSE Looping(POk(r.p, Append(s.r.v, r.v)), FALSE))

\* the rounds left after `half`
ArgumentRest(half, n) == IF half.more THEN ArgumentRounds(half, n) ELSE half

\* up to n rounds of the loop: the first half of them, then the rest
ArgumentRounds(s, n) ==
    IF n > 1 THEN ArgumentRest(ArgumentRounds(s, n \div 2), n - n \div 2)
    ELSE ArgumentRound(s)

\* the runs left after the rounds up to t, the next one of n rounds
ArgumentNextRun(t, n) == IF t.more THEN ArgumentRuns(t, n) ELSE t

\* the rounds of the loop until it is left, taken in runs of n, 2n, 4n, ..
\* rounds
ArgumentRuns(s, n) == ArgumentNextRun(ArgumentRounds(s, n), 2 * n)

\* the loop of Parser::finish_call, left with the arguments or with an error
ArgumentLoop(p, arguments) == ArgumentRuns(Looping(POk(p, arguments), TRUE), 1).r

finish_call(p, callee) ==
    Try(IF ~check(p, "RightParen") THEN ArgumentLoop(p, <<>>) ELSE POk(p, <<>>),
        LAMBDA arguments :
    Try(consume(arguments.p, "RightParen", "Expect ')' after arguments."), LAMBDA paren :
    POk(paren.p, [k |-> "Call", callee |-> callee, paren |-> paren.v,
                  arguments |-> arguments.v])))

\* the arm of primary's match for the token `next`, the parser being at p
PrimaryOf(p, next) ==
    CASE next.t_type = "False" ->
            POk(p, [k |-> "Literal", value |-> [t |-> "Bool", b |-> FALSE]])
      [] next.t_type = "True" ->
            POk(p, [k |-> "Literal", value |-> [t |-> "Bool", b |-> TRUE]])
      [] next.t_type = "Nil" -> POk(p, [k |-> "Literal", value |-> [t |-> "Nil"]])
      [] next.t_type \in {"Number", "String"} ->
            POk(p, [k |-> "Literal", value |-> Unwrap(previous(p).literal)])
      [] next.t_type = "Identifier" ->
            POk(FetchAddId(p), [k |-> "Variable", id |-> p.next_id, name |-> previous(p)])
      [] next.t_type = "LeftParen" ->
            IF is_at_end(p) THEN POverflow(p) ELSE
            Try(expression(p), LAMBDA expr :
            Try(consume(expr.p, "RightParen", "Expect ')' after expression."), LAMBDA rp :
            POk(rp.p, [k |-> "Grouping", expr |-> expr.v])))
      [] next.t_type = "Super" ->
            Try(consume(p, "Dot", "Expect '.' after 'super'."), LAMBDA dot :
            Try(consume(dot.p, "Identifier", "Expect superclass method name."),
                LAMBDA method :
            POk(FetchAddId(method.p),
                [k |-> "Super", id |-> method.p.next_id, keyword |-> previous(p),
                 method |-> method.v])))
      [] next.t_type = "This" ->
            POk(FetchAddId(p), [k |-> "This", id |-> p.next_id, keyword |-> previous(p)])
      [] OTHER -> PErr(p, next, "Expect expression.")

\* `let next = self.advance()`: at the end of the input advance consumes
\* nothing and returns the previous token once more, so a '(' that is the
\* last token before Eof is matched again by every nested call.
primary(p) == PrimaryOf(advance(p), previous(advance(p)))

RECURSIVE ParseLoop(_, _, _)
\* the loop of Parser::parse
ParseLoop(p, statements, errors) ==
    IF ~is_at_end(p)
    THEN Let(declaration(p), LAMBDA r :
         IF r.ok THEN ParseLoop(r.p, Append(statements, r.v), errors)
         ELSE IF r.overflow
              THEN [p |-> r.p, statements |-> statements, errors |-> errors,
                    overflow |-> TRUE]
              ELSE ParseLoop(synchronize(r.p), statements, Append(errors, Unwrap(r.err))))
    ELSE [p |-> p, statements |-> statements, errors |-> errors, overflow |-> FALSE]

\* Parser::parse: Ok(statements) or Err(errors); next_id is NEXT_EXPR_ID afterwards
ParseResult(r) ==
    [ok |-> ~r.overflow /\ r.errors = <<>>, stmts |-> r.statements, errors |-> r.errors,
     overflow |-> r.overflow, next_id |-> r.p.next_id]

parse(tokens, next_id) == ParseResult(ParseLoop(ParserNew(tokens, next_id), <<>>, <<>>))

-----------------------------------------------------------------------------
(* Resolver (src/src/lox/resolver.rs) *)

\* The resolver: its scope stack (innermost last), the enclosing function and
\* class kinds, and the interpreter's side-table it writes through
\* Interpreter::resolve.
ResolverNew(locals) ==
    [scopes |-> <<>>, current_function |-> "None", current_class |-> "None",
     locals |-> locals]

\* A ResolverResult: the resolver after the call and Ok(()) or Err(ResolverError).
ROk(r) == [r |-> r, ok |-> TRUE, err |-> None]

RErr(r, token, msg) == [r |-> r, ok |-> FALSE, err |-> Some([token |-> token, msg |-> msg])]

begin_scope(r) == [r EXCEPT !.scopes = Append(@, <<>>)]

\* end_scope that leaves the scope on the stack
end_scope_keeps(r) == r

end_scope(r) == [r EXCEPT !.scopes = SubSeq(@, 1, Len(@) - 1)]

\* scopes.last_mut().unwrap().insert(name, flag)
ScopeInsert(r, name, flag) ==
    [r EXCEPT !.scopes[Len(r.scopes)] = (name :> flag) @@ @]

\* declare that replaces the entry of a name the scope already holds
declare_replaces(r, name) ==
    IF r.scopes = <<>> THEN ROk(r) ELSE ROk(ScopeInsert(r, name.lexeme, FALSE))

declare(r, name) ==
    IF r.scopes = <<>> THEN ROk(r)
    ELSE IF name.lexeme \in DOMAIN r.scopes[Len(r.scopes)]
         THEN RErr(r, name, "Already a variable with this name in this scope.")
         ELSE ROk(ScopeInsert(r, name.lexeme, FALSE))

define(r, name) ==
    IF r.scopes /= <<>> THEN ScopeInsert(r, name.lexeme, TRUE) ELSE r

\* Interpreter::resolve: self.locals.insert(*id, depth)
InterpreterResolve(locals, id, depth) == (id :> depth) @@ locals

RECURSIVE ResolveLocalLoop(_, _, _, _)
\* for (depth, scope) in self.scopes.iter().rev().enumerate(): every scope
\* that contains the name writes its depth; the loop has no early exit.
ResolveLocalLoop(r, id, name, depth) ==
    IF depth >= Len(r.scopes) THEN r
    ELSE LET scope == r.scopes[Len(r.scopes) - depth]
             r1 == IF name.lexeme \in DOMAIN scope
                   THEN [r EXCEPT !.locals = InterpreterResolve(@, id, depth)]
                   ELSE r
         IN ResolveLocalLoop(r1, id, name, depth + 1)

resolve_local(r, id, name) == ROk(ResolveLocalLoop(r, id, name, 0))

RECURSIVE resolve_stmts(_, _), ResolveStmtsFrom(_, _, _), resolve_stmt(_, _),
          resolve_expr(_, _), resolve_function(_, _, _), ResolveParams(_, _, _),
          ResolveMethods(_, _, _), ResolveExprs(_, _, _), ResolveClass(_, _),
          ResolveSuperclass(_, _), ResolveClassKeepsKind(_, _)

ResolveStmtsFrom(r, stmts, i) ==
    IF i > Len(stmts) THEN ROk(r)
    ELSE Try(resolve_stmt(r, stmts[i]), LAMBDA x : ResolveStmtsFrom(x.r, stmts, i + 1))

resolve_stmts(r, stmts) == ResolveStmtsFrom(r, stmts, 1)

ResolveParams(r, params, i) ==
    IF i > Len(params) THEN ROk(r)
    ELSE Try(declare(r, params[i]),
             LAMBDA d : ResolveParams(define(d.r, params[i]), params, i + 1))

\* resolve_function that leaves current_function as the function set it
resolve_function_keeps_kind(r, func, func_type) ==
    Try(ResolveParams(begin_scope([r EXCEPT !.current_function = func_type]),
                      func.params, 1), LAMBDA ps :
    Try(resolve_stmts(ps.r, func.body), LAMBDA body :
    ROk(end_scope(body.r))))

resolve_function(r, func, func_type) ==
    Try(ResolveParams(begin_scope([r EXCEPT !.current_function = func_type]),
                      func.params, 1), LAMBDA ps :
    Try(resolve_stmts(ps.r, func.body), LAMBDA body :
    ROk([end_scope(body.r) EXCEPT !.current_function = r.current_function])))

ResolveMethods(r, methods, i) ==
    IF i > Len(methods) THEN ROk(r)
    ELSE Try(resolve_function(r, methods[i],
                              IF methods[i].name.lexeme = "init" THEN "Initializer"
                              ELSE "Method"),
             LAMBDA x : ResolveMethods(x.r, methods, i + 1))

\* if let Some(superclass) = superclass { ... }: the self-inheritance check,
\* current_class = Subclass, the superclass expression and the `super` scope
ResolveSuperclass(r, stmt) ==
    IF ~IsSome(stmt.superclass) THEN ROk(r)
    ELSE IF Unwrap(stmt.superclass).k = "Variable"
            /\ stmt.name.lexeme = Unwrap(stmt.superclass).name.lexeme
         THEN RErr(r, Unwrap(stmt.superclass).name, "A class can't inherit from itself.")
         ELSE Try(resolve_expr([r EXCEPT !.current_class = "Subclass"],
                               Unwrap(stmt.superclass)),
                  LAMBDA sc : ROk(ScopeInsert(begin_scope(sc.r), "super", TRUE)))

\* Stmt::Class that leaves current_class as the class set it
ResolveClassKeepsKind(r, stmt) ==
    Try(declare([r EXCEPT !.current_class = "Class"], stmt.name), LAMBDA d :
    Try(ResolveSuperclass(define(d.r, stmt.name), stmt), LAMBDA sc :
    Try(ResolveMethods(ScopeInsert(begin_scope(sc.r), "this", TRUE), stmt.methods, 1),
        LAMBDA ms :
    ROk(IF IsSome(stmt.superclass) THEN end_scope(end_scope(ms.r))
        ELSE end_scope(ms.r)))))

\* resolve_stmt, Stmt::Class
ResolveClass(r, stmt) ==
    Try(declare([r EXCEPT !.current_class = "Class"], stmt.name), LAMBDA d :
    Try(ResolveSuperclass(define(d.r, stmt.name), stmt), LAMBDA sc :
    Try(ResolveMethods(ScopeInsert(begin_scope(sc.r), "this", TRUE), stmt.methods, 1),
        LAMBDA ms :
    ROk([(IF IsSome(stmt.superclass) THEN end_scope(end_scope(ms.r))
          ELSE end_scope(ms.r)) EXCEPT !.current_class = r.current_class]))))

\* Stmt::Return without the check of FunctionType::Initializer
ResolveReturnAnyValue(r, stmt) ==
    IF r.current_function = "None"
    THEN RErr(r, stmt.keyword, "Can't return from top-level code.")
    ELSE IF IsSome(stmt.value) THEN resolve_expr(r, Unwrap(stmt.value)) ELSE ROk(r)

\* resolve_stmt, Stmt::Return
ResolveReturn(r, stmt) ==
    IF r.current_function = "None"
    THEN RErr(r, stmt.keyword, "Can't return from top-level code.")
    ELSE IF IsSome(stmt.value)
         THEN IF r.current_function = "Initializer"
              THEN RErr(r, stmt.keyword, "Can't return a value from an initializer.")
              ELSE resolve_expr(r, Unwrap(stmt.value))
         ELSE ROk(r)

resolve_stmt(r, stmt) ==
    CASE stmt.k = "Block" ->
            Try(resolve_stmts(begin_scope(r), stmt.stmts), LAMBDA x : ROk(end_scope(x.r)))
      [] stmt.k = "Class" -> ResolveClass(r, stmt)
      [] stmt.k = "Expression" -> resolve_expr(r, stmt.expr)
      [] stmt.k = "Function" ->
            Try(declare(r, stmt.f.name), LAMBDA d :
            resolve_function(define(d.r, stmt.f.name), stmt.f, "Function"))
      [] stmt.k = "If" ->
            Try(resolve_expr(r, stmt.condition), LAMBDA c :
            Try(resolve_stmt(c.r, stmt.then_branch), LAMBDA t :
            IF IsSome(stmt.else_branch) THEN resolve_stmt(t.r, Unwrap(stmt.else_branch))
            ELSE t))
      [] stmt.k = "Print" -> resolve_expr(r, stmt.expr)
      [] stmt.k = "Return" -> ResolveReturn(r, stmt)
      [] stmt.k = "Var" ->
            Try(declare(r, stmt.name), LAMBDA d :
            Try(IF IsSome(stmt.initializer)
                THEN resolve_expr(d.r, Unwrap(stmt.initializer))
                ELSE d, LAMBDA i :
            ROk(define(i.r, stmt.name))))
      [] stmt.k = "While" ->
            Try(resolve_expr(r, stmt.condition), LAMBDA c : resolve_stmt(c.r, stmt.body))

ResolveExprs(r, exprs, i) ==
    IF i > Len(exprs) THEN ROk(r)
    ELSE Try(resolve_expr(r, exprs[i]), LAMBDA x : ResolveExprs(x.r, exprs, i + 1))

\* resolve_expr, Expr::Super
ResolveSuper(r, expr) ==
    CASE r.current_class = "None" ->
            RErr(r, expr.keyword, "Can't use 'super' outside of a class.")
      [] r.current_class = "Class" ->
            RErr(r, expr.keyword, "Can't user 'super' in a class with no superclass")
      [] r.current_class = "Subclass" -> resolve_local(r, expr.id, expr.keyword)

\* Expr::Variable without the look at the flag of the innermost scope
ResolveVariableUnchecked(r, expr) == resolve_local(r, expr.id, expr.name)

\* resolve_expr, Expr::Variable
ResolveVariable(r, expr) ==
    IF r.scopes /= <<>>
       /\ expr.name.lexeme \in DOMAIN r.scopes[Len(r.scopes)]
       /\ r.scopes[Len(r.scopes)][expr.name.lexeme] = FALSE
    THEN RErr(r, expr.name, "Can't read local variable in its own initializer.")
    ELSE resolve_local(r, expr.id, expr.name)

resolve_expr(r, expr) ==
    CASE expr.k = "Assign" ->
            Try(resolve_expr(r, expr.value),
                LAMBDA v : resolve_local(v.r, expr.id, expr.name))
      [] expr.k \in {"Binary", "Logical"} ->
            Try(resolve_expr(r, expr.left), LAMBDA l : resolve_expr(l.r, expr.right))
      [] expr.k = "Call" ->
            Try(resolve_expr(r, expr.callee),
                LAMBDA c : ResolveExprs(c.r, expr.arguments, 1))
      [] expr.k = "Get" -> resolve_expr(r, expr.object)
      [] expr.k = "Grouping" -> resolve_expr(r, expr.expr)
      [] expr.k = "Literal" -> ROk(r)
      [] expr.k = "Set" ->
            Try(resolve_expr(r, expr.object), LAMBDA o : resolve_expr(o.r, expr.value))
      [] expr.k = "Super" -> ResolveSuper(r, expr)
      [] expr.k = "This" ->
            IF r.current_class = "None"
            THEN RErr(r, expr.keyword, "Can't use 'this' outside of a class.")
            ELSE resolve_local(r, expr.id, expr.keyword)
      [] expr.k = "Unary" -> resolve_expr(r, expr.right)
      [] expr.k = "Variable" -> ResolveVariable(r, expr)

-----------------------------------------------------------------------------
(* Values (src/src/lox/value.rs) *)

Nil == [t |-> "Nil"]

Bool(b) == [t |-> "Bool", b |-> b]

\* Value::Number of an f64 (the records of F64 and F64Int); here of the
\* integer n
Number(n) == F64FromInt(n)

Str(s) == [t |-> "String", s |-> s]

\* is_truthy that takes the number 0 and the empty string for false
is_truthy_c(v) ==
    CASE v.t = "Nil" -> FALSE
      [] v.t = "Bool" -> v.b
      [] v.t = "Number" -> ~F64IsZero(v)
      [] v.t = "String" -> v.s /= ""
      [] OTHER -> TRUE

is_truthy(v) ==
    CASE v.t = "Nil" -> FALSE
      [] v.t = "Bool" -> v.b
      [] OTHER -> TRUE

\* impl PartialEq for Value
ValueEq(a, b) ==
    CASE a.t = "Number" /\ b.t = "Number" -> F64Eq(a, b)
      [] a.t = "String" /\ b.t = "String" -> a.s = b.s
      [] a.t = "Bool" /\ b.t = "Bool" -> a.b = b.b
      [] a.t = "Nil" /\ b.t = "Nil" -> TRUE
      [] OTHER -> FALSE

\* impl Display for Value, LoxFunction, NativeFn, LoxClass, LoxInstance
Display(v) ==
    CASE v.t = "Nil" -> "nil"
      [] v.t = "Bool" -> IF v.b THEN "true" ELSE "false"
      [] v.t = "Number" -> IF F64FractIsZero(v) THEN F64AsIsize(v) ELSE F64Display(v)
      [] v.t = "String" -> v.s
      [] v.t = "Callable" ->
            IF v.kind = "Native" THEN "<native fn>"
            ELSE "<fn " \o v.fn.declaration.name.lexeme \o ">"
      [] v.t = "Class" -> v.name
      [] v.t = "Instance" -> v.class.name \o " instance"

\* RuntimeException::Error, RuntimeException::Return; a panic of the process;
\* the cut-off of a run that exceeds MaxSteps.
RuntimeError(token, msg) == [k |-> "Error", token |-> token, msg |-> msg]

ReturnSignal(value) == [k |-> "Return", value |-> value]

Panic(msg) == [k |-> "Panic", msg |-> msg]

Cutoff == [k |-> "Cutoff"]

\* A RuntimeResult<Value> together with the interpreter and heaps after the call.
Ok(st, v) == [st |-> st, ex |-> None, v |-> v]

Err(st, ex) == [st |-> st, ex |-> Some(ex), v |-> Nil]

Failed(x) == x.ex /= None

\* checked_add .. checked_lte, checked_negate: the operand check and the result
NumbersBoth(a, b) == a.t = "Number" /\ b.t = "Number"

checked_add(st, a, operator, b) ==
    CASE NumbersBoth(a, b) -> Ok(st, F64Add(a, b))
      [] a.t = "String" /\ b.t = "String" -> Ok(st, Str(a.s \o b.s))
      [] OTHER -> Err(st, RuntimeError(operator, "Operands must both be numbers or strings."))

checked_sub(st, a, operator, b) ==
    IF NumbersBoth(a, b) THEN Ok(st, F64Sub(a, b))
    ELSE Err(st, RuntimeError(operator, "Operands must be numbers."))

checked_mul(st, a, operator, b) ==
    IF NumbersBoth(a, b) THEN Ok(st, F64Mul(a, b))
    ELSE Err(st, RuntimeError(operator, "Operands must be numbers."))

checked_div(st, a, operator, b) ==
    IF NumbersBoth(a, b) THEN Ok(st, F64Div(a, b))
    ELSE Err(st, RuntimeError(operator, "Operands must be numbers."))

checked_gt(st, a, operator, b) ==
    IF NumbersBoth(a, b) THEN Ok(st, Bool(F64Lt(b, a)))
    ELSE Err(st, RuntimeError(operator, "Operands must be numbers."))

checked_gte(st, a, operator, b) ==
    IF NumbersBoth(a, b) THEN Ok(st, Bool(F64Le(b, a)))
    ELSE Err(st, RuntimeError(operator, "Operands must be numbers."))

checked_lt(st, a, operator, b) ==
    IF NumbersBoth(a, b) THEN Ok(st, Bool(F64Lt(a, b)))
    ELSE Err(st, RuntimeError(operator, "Operands must be numbers."))

\* checked_lte that computes lhs >= rhs
checked_lte_as_gte(st, a, operator, b) ==
    IF NumbersBoth(a, b) THEN Ok(st, Bool(F64Le(b, a)))
    ELSE Err(st, RuntimeError(operator, "Operands must be numbers."))

checked_lte(st, a, operator, b) ==
    IF NumbersBoth(a, b) THEN Ok(st, Bool(F64Le(a, b)))
    ELSE Err(st, RuntimeError(operator, "Operands must be numbers."))

checked_negate(st, a, operator) ==
    IF a.t = "Number" THEN Ok(st, F64Neg(a))
    ELSE Err(st, RuntimeError(operator, "Operand must be a number."))

-----------------------------------------------------------------------------
(* Environment (src/jlox/src/lox/environment.rs) *)

\* Environment::new(enclosing): the heap with one more cell; the new cell is
\* the last one.
EnvironmentNew(heap, enclosing) ==
    Append(heap, [values |-> <<>>, enclosing |-> Some(enclosing)])

EnvDefine(heap, e, name, value) ==
    [heap EXCEPT ![e].values = (name :> value) @@ @]

RECURSIVE EnvAssignDefines(_, _, _, _)
\* Environment::assign that binds the name in the outermost frame when no
\* frame of the chain has it
EnvAssignDefines(heap, e, name, value) ==
    IF name.lexeme \in DOMAIN heap[e].values
    THEN [ok |-> TRUE, heap |-> [heap EXCEPT ![e].values[name.lexeme] = value]]
    ELSE IF IsSome(heap[e].enclosing)
         THEN EnvAssignDefines(heap, Unwrap(heap[e].enclosing), name, value)
         ELSE [ok |-> TRUE, heap |-> EnvDefine(heap, e, name.lexeme, value)]

RECURSIVE EnvAssign(_, _, _, _)
\* Environment::assign: the first frame of the chain that contains the name
EnvAssign(heap, e, name, value) ==
    IF name.lexeme \in DOMAIN heap[e].values
    THEN [ok |-> TRUE, heap |-> [heap EXCEPT ![e].values[name.lexeme] = value]]
    ELSE IF IsSome(heap[e].enclosing)
         THEN EnvAssign(heap, Unwrap(heap[e].enclosing), name, value)
         ELSE [ok |-> FALSE, heap |-> heap]

RECURSIVE EnvGet(_, _, _)
EnvGet(heap, e, token) ==
    IF token.lexeme \in DOMAIN heap[e].values
    THEN [ok |-> TRUE, v |-> heap[e].values[token.lexeme]]
    ELSE IF IsSome(heap[e].enclosing)
         THEN EnvGet(heap, Unwrap(heap[e].enclosing), token)
         ELSE [ok |-> FALSE, v |-> Nil]

RECURSIVE Ancestor(_, _, _)
\* the frame `distance` enclosing links up from e; None when the chain is
\* shorter (the expect on `enclosing` panics)
Ancestor(heap, e, distance) ==
    IF distance = 0 THEN Some(e)
    ELSE IF IsSome(heap[e].enclosing)
         THEN Ancestor(heap, Unwrap(heap[e].enclosing), distance - 1)
         ELSE None

\* Environment::get_at: the expect on `enclosing` panics when the chain is
\* shorter than the distance, the unwrap_or_else panics when the frame reached
\* does not hold the name; msg is the message of the panic
get_at(heap, e, distance, name) ==
    LET a == Ancestor(heap, e, distance) IN
    IF ~IsSome(a)
    THEN [ok |-> FALSE, v |-> Nil,
          msg |-> "Attempted to access None enclosing Environment."]
    ELSE IF name \in DOMAIN heap[Unwrap(a)].values
         THEN [ok |-> TRUE, v |-> heap[Unwrap(a)].values[name], msg |-> ""]
         ELSE [ok |-> FALSE, v |-> Nil,
               msg |-> "Undefined variable '" \o name \o "'."]

\* Environment::assign_at: inserts in the frame at that distance
assign_at(heap, e, distance, token, value) ==
    LET a == Ancestor(heap, e, distance) IN
    IF IsSome(a)
    THEN [ok |-> TRUE, heap |-> EnvDefine(heap, Unwrap(a), token.lexeme, value)]
    ELSE [ok |-> FALSE, heap |-> heap]

\* A record kept beside the interpreter, which the program does not have: the
\* greatest distance a get_at or assign_at of the run was called with (-1
\* when none was), whether one of them met a missing frame or a frame without
\* the name, and whether one of them ended in the globals frame.
NoAudit == [deepest |-> -1, missing |-> FALSE, globals |-> FALSE]

\* the record after a get_at or assign_at for `name` at `distance` from the
\* current environment
Audit(st, distance, name) ==
    LET a == Ancestor(st.envs, st.environment, distance) IN
    [st EXCEPT !.audit =
        [deepest |-> IF distance > @.deepest THEN distance ELSE @.deepest,
         missing |-> @.missing \/ ~IsSome(a)
                        \/ (IsSome(a) /\ name \notin DOMAIN st.envs[Unwrap(a)].values),
         globals |-> @.globals \/ a = Some(st.globals)]]

-----------------------------------------------------------------------------
(* Functions, classes, instances
   (src/src/lox/lox_function.rs, src/jlox/src/lox/lox_class.rs,
    src/jlox/src/lox/lox_instance.rs) *)

\* LoxFunction::new
LoxFunctionNew(decl, closure, is_initializer) ==
    [declaration |-> decl, closure |-> closure, is_initializer |-> is_initializer]

\* CallableFn::Lox(function) and the native `clock`
CallableLox(fn) == [t |-> "Callable", kind |-> "Lox", fn |-> fn]

CallableNative(arity) == [t |-> "Callable", kind |-> "Native", arity |-> arity]

\* LoxClass::new
LoxClassNew(name, superclass, methods) ==
    [t |-> "Class", name |-> name, methods |-> methods, superclass |-> superclass]

RECURSIVE find_method(_, _)
\* LoxClass::find_method: the class's own map, then the superclass chain
find_method(class, name) ==
    IF name \in DOMAIN class.methods THEN Some(class.methods[name])
    ELSE IF IsSome(class.superclass) THEN find_method(Unwrap(class.superclass), name)
    ELSE None

\* LoxClass::arity
ClassArity(class) ==
    IF IsSome(find_method(class, "init"))
    THEN Len(Unwrap(find_method(class, "init")).declaration.params)
    ELSE 0

\* LoxCallable::arity of a Callable value
CallableArity(callee) ==
    IF callee.kind = "Native" THEN callee.arity ELSE Len(callee.fn.declaration.params)

\* LoxFunction::bind: a new function over a fresh frame `this := instance`
\* that encloses the method's closure
bind(st, fn, instance) ==
    LET heap1 == EnvironmentNew(st.envs, fn.closure)
        environment == Len(heap1)
        heap2 == EnvDefine(heap1, environment, "this", instance)
    IN [st |-> [st EXCEPT !.envs = heap2],
        fn |-> LoxFunctionNew(fn.declaration, environment, fn.is_initializer)]

\* LoxInstance::new: a fresh, empty field map
LoxInstanceNew(st, class) ==
    [st |-> [st EXCEPT !.fields = Append(@, <<>>)],
     instance |-> [t |-> "Instance", class |-> class, fields |-> Len(st.fields) + 1]]

\* LoxInstance::get that looks for a method before it looks for a field
InstanceGetMethodFirst(st, instance, name) ==
    IF IsSome(find_method(instance.class, name.lexeme))
    THEN Let(bind(st, Unwrap(find_method(instance.class, name.lexeme)), instance),
             LAMBDA b : Ok(b.st, CallableLox(b.fn)))
    ELSE IF name.lexeme \in DOMAIN st.fields[instance.fields]
         THEN Ok(st, st.fields[instance.fields][name.lexeme])
         ELSE Err(st, RuntimeError(name, "Undefined property '" \o name.lexeme \o "'."))

\* LoxInstance::get
InstanceGet(st, instance, name) ==
    IF name.lexeme \in DOMAIN st.fields[instance.fields]
    THEN Ok(st, st.fields[instance.fields][name.lexeme])
    ELSE IF IsSome(find_method(instance.class, name.lexeme))
         THEN Let(bind(st, Unwrap(find_method(instance.class, name.lexeme)), instance),
                  LAMBDA b : Ok(b.st, CallableLox(b.fn)))
         ELSE Err(st, RuntimeError(name, "Undefined property '" \o name.lexeme \o "'."))

\* LoxInstance::set on a handle whose clone copied the field map
InstanceSetOnCopy(st, instance, name, value) ==
    [st EXCEPT !.fields = Append(@, (name.lexeme :> value) @@ st.fields[instance.fields])]

\* LoxInstance::set
InstanceSet(st, instance, name, value) ==
    [st EXCEPT !.fields[instance.fields] = (name.lexeme :> value) @@ @]

-----------------------------------------------------------------------------
(* Interpreter (src/src/lox/interpreter.rs) *)

\* The interpreter at work: the Interpreter struct (globals, environment,
\* locals), the two heaps, the lines written to stdout and the step count.
SetEnvironment(st, environment) == [st EXCEPT !.environment = environment]

\* the `?` operator on a RuntimeResult
TryEval(x, K(_)) == IF x.ex = None THEN K(x) ELSE x

RECURSIVE execute(_, _), ExecStmtsFrom(_, _, _), execute_block(_, _, _),
          evaluate(_, _), EvalArguments(_, _, _, _), WhileLoop(_, _),
          LoxFunctionCall(_, _, _), LoxClassCall(_, _, _), EvalCall(_, _),
          EvalSet(_, _), EvalAssign(_, _), EvalBinary(_, _), EvalLogical(_, _),
          ExecClass(_, _), ClassSuperclass(_, _)

\* for stmt in stmts { self.execute(stmt)?; }
ExecStmtsFrom(st, stmts, i) ==
    IF i > Len(stmts) THEN Ok(st, Nil)
    ELSE TryEval(execute(st, stmts[i]), LAMBDA x : ExecStmtsFrom(x.st, stmts, i + 1))

interpret(st, stmts) == ExecStmtsFrom(st, stmts, 1)

\* execute_block that restores the previous environment on the normal exit
\* only
execute_block_no_inspect_err(st, statements, environment) ==
    Let(ExecStmtsFrom(SetEnvironment(st, environment), statements, 1), LAMBDA x :
    IF Failed(x) THEN x ELSE Ok(SetEnvironment(x.st, st.environment), Nil))

\* Interpreter::execute_block: inspect_err restores the previous environment
\* when a statement returns Err (a runtime error or a Return); a panic or a
\* cut-off run does not come back here.
execute_block(st, statements, environment) ==
    Let(ExecStmtsFrom(SetEnvironment(st, environment), statements, 1), LAMBDA x :
    IF Failed(x)
    THEN IF Unwrap(x.ex).k \in {"Error", "Return"}
         THEN [x EXCEPT !.st = SetEnvironment(x.st, st.environment)]
         ELSE x
    ELSE Ok(SetEnvironment(x.st, st.environment), Nil))

\* Interpreter::look_up_var
look_up_var(st, name, id) ==
    IF id \in DOMAIN st.locals
    THEN Let(get_at(st.envs, st.environment, st.locals[id], name.lexeme), LAMBDA g :
         IF g.ok THEN Ok(Audit(st, st.locals[id], name.lexeme), g.v)
         ELSE Err(Audit(st, st.locals[id], name.lexeme), Panic(g.msg)))
    ELSE Let(EnvGet(st.envs, st.globals, name), LAMBDA g :
         IF g.ok THEN Ok(st, g.v)
         ELSE Err(st, RuntimeError(name, "Undefined variable '" \o name.lexeme \o "'.")))

\* an initializer that yields nil like any other function
InitializerNil(st, fn) == Ok(st, Nil)

\* the value an initializer yields: self.closure.borrow().get_at(0, "this")
InitializerThis(st, fn) ==
    Let(get_at(st.envs, fn.closure, 0, "this"), LAMBDA g :
    IF g.ok THEN Ok(st, g.v) ELSE Err(st, Panic(g.msg)))

RECURSIVE DefineParams(_, _, _, _, _)
\* for (param, arg) in params.iter().zip(arguments) { define(param, arg) }
DefineParams(heap, e, params, arguments, i) ==
    IF i > Len(params) \/ i > Len(arguments) THEN heap
    ELSE DefineParams(EnvDefine(heap, e, params[i].lexeme, arguments[i]),
                      e, params, arguments, i + 1)

\* LoxFunction::call over a copy of the closure frame instead of the frame
LoxFunctionCallCopiedClosure(st, fn, arguments) ==
    Let(EnvironmentNew(Append(st.envs, st.envs[fn.closure]), Len(st.envs) + 1),
        LAMBDA heap :
    Let(execute_block(
            [st EXCEPT !.envs = DefineParams(heap, Len(heap), fn.declaration.params,
                                             arguments, 1)],
            fn.declaration.body, Len(heap)), LAMBDA x :
    IF ~Failed(x)
    THEN IF fn.is_initializer THEN InitializerThis(x.st, fn) ELSE Ok(x.st, Nil)
    ELSE IF Unwrap(x.ex).k = "Return"
         THEN IF fn.is_initializer THEN InitializerThis(x.st, fn)
              ELSE Ok(x.st, Unwrap(x.ex).value)
         ELSE x))

\* LoxFunction::call that hands the Return signal on to its caller
LoxFunctionCallNoCatch(st, fn, arguments) ==
    Let(EnvironmentNew(st.envs, fn.closure), LAMBDA heap :
    Let(execute_block(
            [st EXCEPT !.envs = DefineParams(heap, Len(heap), fn.declaration.params,
                                             arguments, 1)],
            fn.declaration.body, Len(heap)), LAMBDA x :
    IF ~Failed(x)
    THEN IF fn.is_initializer THEN InitializerThis(x.st, fn) ELSE Ok(x.st, Nil)
    ELSE x))

\* LoxFunction::call
LoxFunctionCall(st, fn, arguments) ==
    Let(EnvironmentNew(st.envs, fn.closure), LAMBDA heap :
    Let(execute_block(
            [st EXCEPT !.envs = DefineParams(heap, Len(heap), fn.declaration.params,
                                             arguments, 1)],
            fn.declaration.body, Len(heap)), LAMBDA x :
    IF ~Failed(x)
    THEN IF fn.is_initializer THEN InitializerThis(x.st, fn) ELSE Ok(x.st, Nil)
    ELSE IF Unwrap(x.ex).k = "Return"
         THEN IF fn.is_initializer THEN InitializerThis(x.st, fn)
              ELSE Ok(x.st, Unwrap(x.ex).value)
         ELSE x))

\* LoxClass::call
LoxClassCall(st, class, arguments) ==
    Let(LoxInstanceNew(st, class), LAMBDA i :
    IF IsSome(find_method(class, "init"))
    THEN Let(bind(i.st, Unwrap(find_method(class, "init")), i.instance), LAMBDA b :
         TryEval(LoxFunctionCall(b.st, b.fn, arguments), LAMBDA x : Ok(x.st, i.instance)))
    ELSE Ok(i.st, i.instance))

\* SystemTime::duration_since(UNIX_EPOCH) of a time t of the system clock,
\* which stands t.sec seconds, to the side of the epoch t.neg tells, and
\* t.nsec nanoseconds after the epoch: Ok of the Duration from the epoch to
\* t, or Err of a SystemTimeError with the Duration from t to the epoch when
\* t is before it
duration_since(t) ==
    IF ~t.neg THEN [ok |-> TRUE, secs |-> t.sec, nanos |-> t.nsec]
    ELSE IF t.nsec = 0 THEN [ok |-> FALSE, secs |-> t.sec, nanos |-> 0]
    ELSE [ok |-> FALSE, secs |-> BigSub(t.sec, <<1>>), nanos |-> 1000000000 - t.nsec]

\* Duration::as_millis
as_millis(d) == BigAdd(BigMulSmall(d.secs, 1000), BigFromInt(d.nanos \div 1000000))

RECURSIVE FractionDigits(_, _)
\* the decimal places of fractional_part / (10 * divisor), the last one not 0
FractionDigits(fractional_part, divisor) ==
    IF fractional_part = 0 THEN ""
    ELSE Digits[(fractional_part \div divisor) + 1]
             \o FractionDigits(fractional_part % divisor, divisor \div 10)

\* fmt_decimal of core::time without a precision
fmt_decimal(integer_part, fractional_part, divisor, postfix) ==
    integer_part
        \o (IF fractional_part > 0 THEN "." \o FractionDigits(fractional_part, divisor)
            ELSE "")
        \o postfix

\* the Debug form of a Duration: in seconds, or in the greatest of ms, the
\* microsecond (its sign is U+00B5) and ns that is not above it
DurationDebug(d) ==
    IF d.secs /= <<>> THEN fmt_decimal(BigDigits(d.secs), d.nanos, 100000000, "s")
    ELSE IF d.nanos >= 1000000
    THEN fmt_decimal(NatToString(d.nanos \div 1000000), d.nanos % 1000000, 100000, "ms")
    ELSE IF d.nanos >= 1000
    THEN fmt_decimal(NatToString(d.nanos \div 1000), d.nanos % 1000, 100, "U+00B5s")
    ELSE fmt_decimal(NatToString(d.nanos), 0, 1, "ns")

\* the message of the panic of Result::unwrap on an Err whose Debug form is
\* shown (the backquote is U+0060)
UnwrapFailed(shown) ==
    "called U+0060Result::unwrap()U+0060 on an U+0060ErrU+0060 value: " \o shown

\* The native `clock`: SystemTime::now().duration_since(UNIX_EPOCH).unwrap()
\* .as_millis() as f64.  st.clock holds what SystemTime::now() will be at
\* the calls of this run, in their order; unwrap panics when the clock stands
\* before the epoch.  The run is cut off at a call beyond them.
NativeCall(st, callee, arguments) ==
    IF st.clock = <<>> THEN Err(st, Cutoff)
    ELSE Let([st EXCEPT !.clock = Tail(@)], LAMBDA st1 :
         Let(duration_since(Head(st.clock)), LAMBDA d :
         IF d.ok THEN Ok(st1, F64Round(FALSE, as_millis(d), 0, FALSE))
         ELSE Err(st1, Panic(UnwrapFailed("SystemTimeError(" \o DurationDebug(d) \o ")")))))

\* for argument in arguments { args.push(self.evaluate(argument)?); }
EvalArguments(st, arguments, i, args) ==
    IF i > Len(arguments) THEN Ok(st, args)
    ELSE TryEval(evaluate(st, arguments[i]),
                 LAMBDA a : EvalArguments(a.st, arguments, i + 1, Append(args, a.v)))

ArityError(paren, arity, n) ==
    RuntimeError(paren, "Expected " \o IntToString(arity) \o " arguments but got "
                        \o IntToString(n) \o ".")

\* Expr::Call that dispatches without comparing args.len() with the arity
EvalCallAnyCount(st, expr) ==
    TryEval(evaluate(st, expr.callee), LAMBDA callee :
    TryEval(EvalArguments(callee.st, expr.arguments, 1, <<>>), LAMBDA args :
    CASE callee.v.t = "Callable" ->
            IF callee.v.kind = "Native" THEN NativeCall(args.st, callee.v, args.v)
            ELSE LoxFunctionCall(args.st, callee.v.fn, args.v)
      [] callee.v.t = "Class" -> LoxClassCall(args.st, callee.v, args.v)
      [] OTHER ->
            Err(args.st, RuntimeError(expr.paren, "Can only call functions and classes."))))

\* evaluate, Expr::Call
EvalCall(st, expr) ==
    TryEval(evaluate(st, expr.callee), LAMBDA callee :
    TryEval(EvalArguments(callee.st, expr.arguments, 1, <<>>), LAMBDA args :
    CASE callee.v.t = "Callable" ->
            IF Len(args.v) /= CallableArity(callee.v)
            THEN Err(args.st, ArityError(expr.paren, CallableArity(callee.v), Len(args.v)))
            ELSE IF callee.v.kind = "Native" THEN NativeCall(args.st, callee.v, args.v)
                 ELSE LoxFunctionCall(args.st, callee.v.fn, args.v)
      [] callee.v.t = "Class" ->
            IF Len(args.v) /= ClassArity(callee.v)
            THEN Err(args.st, ArityError(expr.paren, ClassArity(callee.v), Len(args.v)))
            ELSE LoxClassCall(args.st, callee.v, args.v)
      [] OTHER ->
            Err(args.st, RuntimeError(expr.paren, "Can only call functions and classes."))))

\* evaluate, Expr::Assign
EvalAssign(st, expr) ==
    TryEval(evaluate(st, expr.value), LAMBDA value :
    IF expr.id \in DOMAIN value.st.locals
    THEN Let(assign_at(value.st.envs, value.st.environment, value.st.locals[expr.id],
                       expr.name, value.v), LAMBDA a :
         IF a.ok
         THEN Ok([Audit(value.st, value.st.locals[expr.id], expr.name.lexeme)
                     EXCEPT !.envs = a.heap], value.v)
         ELSE Err(Audit(value.st, value.st.locals[expr.id], expr.name.lexeme),
                  Panic("Attempted to access None enclosing Environment.")))
    ELSE Let(EnvAssign(value.st.envs, value.st.globals, expr.name, value.v), LAMBDA a :
         IF a.ok THEN Ok([value.st EXCEPT !.envs = a.heap], value.v)
         ELSE Err(value.st, RuntimeError(expr.name,
                      "Undefined variable '" \o expr.name.lexeme \o "'."))))

\* the arm of Expr::Binary's match for the operator, both operands evaluated
BinaryOf(st, left, operator, right) ==
    CASE operator.t_type = "Plus" -> checked_add(st, left, operator, right)
      [] operator.t_type = "Minus" -> checked_sub(st, left, operator, right)
      [] operator.t_type = "Slash" -> checked_div(st, left, operator, right)
      [] operator.t_type = "Star" -> checked_mul(st, left, operator, right)
      [] operator.t_type = "Greater" -> checked_gt(st, left, operator, right)
      [] operator.t_type = "GreaterEqual" -> checked_gte(st, left, operator, right)
      [] operator.t_type = "Less" -> checked_lt(st, left, operator, right)
      [] operator.t_type = "LessEqual" -> checked_lte(st, left, operator, right)
      [] operator.t_type = "BangEqual" -> Ok(st, Bool(~ValueEq(left, right)))
      [] operator.t_type = "EqualEqual" -> Ok(st, Bool(ValueEq(left, right)))

\* evaluate, Expr::Binary
EvalBinary(st, expr) ==
    TryEval(evaluate(st, expr.left), LAMBDA left :
    TryEval(evaluate(left.st, expr.right), LAMBDA right :
    BinaryOf(right.st, left.v, expr.operator, right.v)))

\* evaluate, Expr::Logical
EvalLogical(st, expr) ==
    TryEval(evaluate(st, expr.left), LAMBDA left :
    IF expr.operator.t_type = "Or"
    THEN IF is_truthy(left.v) THEN left ELSE evaluate(left.st, expr.right)
    ELSE IF ~is_truthy(left.v) THEN left ELSE evaluate(left.st, expr.right))

\* evaluate, Expr::Set
EvalSet(st, expr) ==
    TryEval(evaluate(st, expr.object), LAMBDA object :
    IF object.v.t = "Instance"
    THEN TryEval(evaluate(object.st, expr.value), LAMBDA value :
         Ok(InstanceSet(value.st, object.v, expr.name, value.v), value.v))
    ELSE Err(object.st, RuntimeError(expr.name, "Only instances have fields.")))

\* Expr::Super: `super` at its recorded depth, `this` one frame nearer, the
\* method of the superclass bound to `this`
EvalSuper(st, expr) ==
    IF ~(expr.id \in DOMAIN st.locals) THEN Err(st, Panic("Undefined variable 'super'."))
    ELSE
    Let(get_at(st.envs, st.environment, st.locals[expr.id], "super"), LAMBDA superclass :
    Let(get_at(st.envs, st.environment, st.locals[expr.id] - 1, "this"), LAMBDA object :
    Let(Audit(Audit(st, st.locals[expr.id], "super"), st.locals[expr.id] - 1, "this"),
        LAMBDA st1 :
    IF ~superclass.ok THEN Err(st1, Panic(superclass.msg))
    ELSE IF ~object.ok THEN Err(st1, Panic(object.msg))
    ELSE IF IsSome(find_method(superclass.v, expr.method.lexeme))
         THEN Let(bind(st1, Unwrap(find_method(superclass.v, expr.method.lexeme)),
                       object.v),
                  LAMBDA b : Ok(b.st, CallableLox(b.fn)))
         ELSE Err(st1, RuntimeError(expr.method,
                       "Undefined property '" \o expr.method.lexeme \o "'.")))))

evaluate(st, expr) ==
    CASE expr.k = "Assign" -> EvalAssign(st, expr)
      [] expr.k = "Binary" -> EvalBinary(st, expr)
      [] expr.k = "Call" -> EvalCall(st, expr)
      [] expr.k = "Get" ->
            TryEval(evaluate(st, expr.object), LAMBDA object :
            IF object.v.t = "Instance" THEN InstanceGet(object.st, object.v, expr.name)
            ELSE Err(object.st, RuntimeError(expr.name, "Only instances have properties.")))
      [] expr.k = "Grouping" -> evaluate(st, expr.expr)
      [] expr.k = "Literal" -> Ok(st, expr.value)
      [] expr.k = "Logical" -> EvalLogical(st, expr)
      [] expr.k = "Set" -> EvalSet(st, expr)
      [] expr.k = "Super" -> EvalSuper(st, expr)
      [] expr.k = "This" -> look_up_var(st, expr.keyword, expr.id)
      [] expr.k = "Unary" ->
            TryEval(evaluate(st, expr.right), LAMBDA right :
            IF expr.operator.t_type = "Bang" THEN Ok(right.st, Bool(~is_truthy(right.v)))
            ELSE checked_negate(right.st, right.v, expr.operator))
      [] expr.k = "Variable" -> look_up_var(st, expr.name, expr.id)

\* while self.evaluate(condition)?.is_truthy() { self.execute(body)?; }
WhileLoop(st, stmt) ==
    TryEval(evaluate(st, stmt.condition), LAMBDA c :
    IF is_truthy(c.v)
    THEN TryEval(execute(c.st, stmt.body), LAMBDA b : WhileLoop(b.st, stmt))
    ELSE Ok(c.st, Nil))

RECURSIVE MethodsMap(_, _, _, _)
\* for method in methods { methods_map.insert(name, LoxFunction::new(..)) }
MethodsMap(methods, closure, i, map) ==
    IF i > Len(methods) THEN map
    ELSE MethodsMap(methods, closure, i + 1,
            (methods[i].name.lexeme :>
                LoxFunctionNew(methods[i], closure, methods[i].name.lexeme = "init")) @@ map)

\* Stmt::Class with a superclass expression: evaluate it, require a class,
\* and push the frame `super := superclass` the methods close over
ClassSuperclass(st, stmt) ==
    TryEval(evaluate(st, Unwrap(stmt.superclass)), LAMBDA sc :
    IF sc.v.t /= "Class"
    THEN Err(sc.st, RuntimeError(Unwrap(stmt.superclass).name, "Superclass must be a class."))
    ELSE Let(EnvironmentNew(sc.st.envs, sc.st.environment), LAMBDA heap :
         Ok(SetEnvironment([sc.st EXCEPT !.envs = EnvDefine(heap, Len(heap), "super", sc.v)],
                           Len(heap)),
            Some(sc.v))))

\* execute, Stmt::Class: define the name, build the class over the methods
\* that close over the current environment, assign it to the name
ExecClass(st, stmt) ==
    TryEval(IF IsSome(stmt.superclass)
            THEN ClassSuperclass(
                    [st EXCEPT !.envs = EnvDefine(@, st.environment, stmt.name.lexeme, Nil)],
                    stmt)
            ELSE Ok([st EXCEPT !.envs = EnvDefine(@, st.environment, stmt.name.lexeme, Nil)],
                    None), LAMBDA sc :
    Let(EnvAssign(sc.st.envs, st.environment, stmt.name,
                  LoxClassNew(stmt.name.lexeme, sc.v,
                              MethodsMap(stmt.methods, sc.st.environment, 1, <<>>))),
        LAMBDA a :
    Ok([SetEnvironment(sc.st, st.environment) EXCEPT !.envs = a.heap], Nil)))

\* Interpreter::execute; a run that has used up MaxSteps is cut off
execute(st0, stmt) ==
    IF st0.steps >= MaxSteps THEN Err(st0, Cutoff) ELSE
    LET st == [st0 EXCEPT !.steps = @ + 1] IN
    CASE stmt.k = "Block" ->
            execute_block([st EXCEPT !.envs = EnvironmentNew(@, st.environment)],
                          stmt.stmts, Len(st.envs) + 1)
      [] stmt.k = "Class" -> ExecClass(st, stmt)
      [] stmt.k = "Expression" ->
            TryEval(evaluate(st, stmt.expr), LAMBDA v : Ok(v.st, Nil))
      [] stmt.k = "Function" ->
            Ok([st EXCEPT !.envs = EnvDefine(@, st.environment, stmt.f.name.lexeme,
                    CallableLox(LoxFunctionNew(stmt.f, st.environment, FALSE)))], Nil)
      [] stmt.k = "If" ->
            TryEval(evaluate(st, stmt.condition), LAMBDA c :
            IF is_truthy(c.v) THEN execute(c.st, stmt.then_branch)
            ELSE IF IsSome(stmt.else_branch) THEN execute(c.st, Unwrap(stmt.else_branch))
            ELSE Ok(c.st, Nil))
      [] stmt.k = "Print" ->
            TryEval(evaluate(st, stmt.expr), LAMBDA v :
            Ok([v.st EXCEPT !.out = Append(@, Display(v.v))], Nil))
      [] stmt.k = "Return" ->
            TryEval(IF IsSome(stmt.value) THEN evaluate(st, Unwrap(stmt.value))
                    ELSE Ok(st, Nil), LAMBDA v :
            Err(v.st, ReturnSignal(v.v)))
      [] stmt.k = "Var" ->
            TryEval(IF IsSome(stmt.initializer) THEN evaluate(st, Unwrap(stmt.initializer))
                    ELSE Ok(st, Nil), LAMBDA v :
            Ok([v.st EXCEPT !.envs = EnvDefine(@, v.st.environment, stmt.name.lexeme, v.v)],
               Nil))
      [] stmt.k = "While" -> WhileLoop(st, stmt)

\* Interpreter::new: globals holds `clock`, and is the current environment
InterpreterNew == [globals |-> 1, environment |-> 1, locals |-> <<>>]

GlobalsNew == <<[values |-> ("clock" :> CallableNative(0)), enclosing |-> None]>>

-----------------------------------------------------------------------------
(* Lox::run, run_file, run_prompt (src/src/lox/mod.rs) *)

\* Lox::run(source, interpreter) on the process state
\* I = [interpreter, envs, fields, next_id]: the state afterwards, the stages
\* entered, the result, stdout, and the kinds of error written to stderr by
\* the stages and by the caller's eprintln!("{err}").
RunOutcome(I, stgs, res, output, kinds) ==
    [interpreter |-> I.interpreter, envs |-> I.envs, fields |-> I.fields,
     next_id |-> I.next_id, stages |-> stgs, result |-> res, out |-> output,
     reported |-> kinds, audit |-> NoAudit]

\* the result of interpreter.interpret(&stmts)?
InterpretResult(y) ==
    IF ~Failed(y) THEN "Ok"
    ELSE CASE Unwrap(y.ex).k \in {"Error", "Return"} -> "Runtime"
           [] Unwrap(y.ex).k = "Panic" -> "Panic"
           [] Unwrap(y.ex).k = "Cutoff" -> "Cutoff"

RECURSIVE Repeat(_, _)
Repeat(x, n) == IF n = 0 THEN <<>> ELSE <<x>> \o Repeat(x, n - 1)

\* interpreter.interpret(&stmts)?
RunInterpret(I, stmts) ==
    Let(interpret([globals |-> I.interpreter.globals,
                   environment |-> I.interpreter.environment,
                   locals |-> I.interpreter.locals,
                   envs |-> I.envs, fields |-> I.fields, out |-> <<>>, steps |-> 0,
                   audit |-> NoAudit, clock |-> I.clock],
                  stmts), LAMBDA y :
    [RunOutcome([I EXCEPT !.interpreter.environment = y.st.environment,
                          !.envs = y.st.envs, !.fields = y.st.fields],
                <<"scan", "parse", "resolve", "interpret">>, InterpretResult(y), y.st.out,
                IF Failed(y) THEN <<InterpretResult(y)>> ELSE <<>>)
        EXCEPT !.audit = y.st.audit])

\* Resolver::new(interpreter).resolve_stmts(&stmts)?: what the resolver wrote
\* to the side table stays there when it fails
RunResolve(I, stmts) ==
    Let(resolve_stmts(ResolverNew(I.interpreter.locals), stmts), LAMBDA x :
    IF ~x.ok
    THEN RunOutcome([I EXCEPT !.interpreter.locals = x.r.locals],
                    <<"scan", "parse", "resolve">>, "Resolver", <<>>, <<"Resolver">>)
    ELSE RunInterpret([I EXCEPT !.interpreter.locals = x.r.locals], stmts))

\* Parser::new(tokens).parse()?
RunParse(I, tokens) ==
    Let(parse(tokens, I.next_id), LAMBDA pr :
    IF pr.overflow
    THEN RunOutcome([I EXCEPT !.next_id = pr.next_id], <<"scan", "parse">>,
                    "StackOverflow", <<>>, <<>>)
    ELSE IF ~pr.ok
         THEN RunOutcome([I EXCEPT !.next_id = pr.next_id], <<"scan", "parse">>,
                         "Parser", <<>>, <<"Parser">>)
         ELSE RunResolve([I EXCEPT !.next_id = pr.next_id], pr.stmts))

\* Lox::run that hands the tokens to the parser whatever the scanner said
LoxRunPastScanner(source, I) == RunParse(I, scan_tokens(source).tokens)

\* Lox::run: Scanner::new(source).scan_tokens()?, then the parser, the
\* resolver and the interpreter, each only when the stage before it succeeded
LoxRun(source, I) ==
    Let(scan_tokens(source), LAMBDA sc :
    IF ~sc.ok
    THEN RunOutcome(I, <<"scan">>, "Scanner", <<>>, Repeat("Scanner", Len(sc.errors)))
    ELSE RunParse(I, sc.tokens))

-----------------------------------------------------------------------------
(* Source texts *)

\* Variable names and literals the programs are built from; `shown` is the
\* line `print` writes for the literal.
Names == {<<"x">>, <<"a", "b">>}

Literals ==
    {[src |-> <<"1">>, shown |-> "1"], [src |-> <<"\"", "h", "i", "\"">>, shown |-> "hi"],
     [src |-> <<"n", "i", "l">>, shown |-> "nil"]}

\* `{ var x = v; print x; } print x;` where x is already bound to w by a
\* global declaration, by an enclosing block, or as a function parameter
ScopeContexts == {"global", "block", "function"}

ScopeInner(x, v) ==
    <<"{", " ", "v", "a", "r", " ">> \o x \o <<" ", "=", " ">> \o v.src \o <<";", " ", "p", "r", "i", "n", "t", " ">> \o x \o <<";", " ", "}", " ", "p", "r", "i", "n", "t", " ">> \o x
        \o <<";", " ">>

ScopeSrc(c) ==
    CASE c.ctx = "global" ->
            <<"v", "a", "r", " ">> \o c.x \o <<" ", "=", " ">> \o c.w.src \o <<";", " ">> \o ScopeInner(c.x, c.v)
      [] c.ctx = "block" ->
            <<"{", " ", "v", "a", "r", " ">> \o c.x \o <<" ", "=", " ">> \o c.w.src \o <<";", " ">> \o ScopeInner(c.x, c.v)
                \o <<"}">>
      [] c.ctx = "function" ->
            <<"f", "u", "n", " ", "f", "(">> \o c.x \o <<")", " ", "{", " ">> \o ScopeInner(c.x, c.v) \o <<"}", " ", "f", "(">> \o c.w.src
                \o <<")", ";">>

ScopeCases == {c \in [ctx : ScopeContexts, x : Names, v : Literals, w : Literals] : c.v /= c.w}

\* A function f whose body prints g, g being bound to w where f is declared:
\*   later:    var g = w; { fun f() { print g; } f(); var g = v; f(); }
\*   inner:    var g = w; fun f() { print g; } { var g = v; f(); }
\*   nested:   { var g = w; { fun f() { print g; } f(); var g = v; f(); } }
\*   shadowed: { var g = v; { var g = w; fun f() { print g; } f(); } }
\*   write:    var g = v; fun f() { g = w; } { var g = v; f(); } print g;
ClosureKinds == {"later", "inner", "nested", "shadowed", "write"}

ClosureSrc(c) ==
    CASE c.kind = "later" ->
            <<"v", "a", "r", " ">> \o c.g \o <<" ", "=", " ">> \o c.w.src \o <<";", " ", "{", " ", "f", "u", "n", " ", "f", "(", ")", " ", "{", " ", "p", "r", "i", "n", "t", " ">> \o c.g
                \o <<";", " ", "}", " ", "f", "(", ")", ";", " ", "v", "a", "r", " ">> \o c.g \o <<" ", "=", " ">> \o c.v.src \o <<";", " ", "f", "(", ")", ";", " ", "}">>
      [] c.kind = "inner" ->
            <<"v", "a", "r", " ">> \o c.g \o <<" ", "=", " ">> \o c.w.src \o <<";", " ", "f", "u", "n", " ", "f", "(", ")", " ", "{", " ", "p", "r", "i", "n", "t", " ">> \o c.g
                \o <<";", " ", "}", " ", "{", " ", "v", "a", "r", " ">> \o c.g \o <<" ", "=", " ">> \o c.v.src \o <<";", " ", "f", "(", ")", ";", " ", "}">>
      [] c.kind = "nested" ->
            <<"{", " ", "v", "a", "r", " ">> \o c.g \o <<" ", "=", " ">> \o c.w.src \o <<";", " ", "{", " ", "f", "u", "n", " ", "f", "(", ")", " ", "{", " ", "p", "r", "i", "n", "t", " ">> \o c.g
                \o <<";", " ", "}", " ", "f", "(", ")", ";", " ", "v", "a", "r", " ">> \o c.g \o <<" ", "=", " ">> \o c.v.src \o <<";", " ", "f", "(", ")", ";", " ", "}", " ", "}">>
      [] c.kind = "shadowed" ->
            <<"{", " ", "v", "a", "r", " ">> \o c.g \o <<" ", "=", " ">> \o c.v.src \o <<";", " ", "{", " ", "v", "a", "r", " ">> \o c.g \o <<" ", "=", " ">>
                \o c.w.src \o <<";", " ", "f", "u", "n", " ", "f", "(", ")", " ", "{", " ", "p", "r", "i", "n", "t", " ">> \o c.g \o <<";", " ", "}", " ", "f", "(", ")", ";", " ", "}", " ", "}">>
      [] c.kind = "write" ->
            <<"v", "a", "r", " ">> \o c.g \o <<" ", "=", " ">> \o c.v.src \o <<";", " ", "f", "u", "n", " ", "f", "(", ")", " ", "{", " ">> \o c.g \o <<" ", "=", " ">>
                \o c.w.src \o <<";", " ", "}", " ", "{", " ", "v", "a", "r", " ">> \o c.g \o <<" ", "=", " ">> \o c.v.src
                \o <<";", " ", "f", "(", ")", ";", " ", "}", " ", "p", "r", "i", "n", "t", " ">> \o c.g \o <<";">>

\* what lexical scope makes the program print
ClosureExpected(c) ==
    IF c.kind \in {"later", "nested"} THEN <<c.w.shown, c.w.shown>> ELSE <<c.w.shown>>

ClosureCases == {c \in [kind : ClosureKinds, g : Names, v : Literals, w : Literals] : c.v /= c.w}

\* The counter closure, called n times:
\*   fun makeCounter() { var i = 0; fun count() { i = i + 1; print i; } return count; }
\*   var counter = makeCounter(); counter(); ... counter();
MaxCalls == 3

RECURSIVE CounterCalls(_)
CounterCalls(n) == IF n = 0 THEN <<>> ELSE CounterCalls(n - 1) \o <<" ", "c", "o", "u", "n", "t", "e", "r", "(", ")", ";">>

CounterSrc(n) ==
    <<"f", "u", "n", " ", "m", "a", "k", "e", "C", "o", "u", "n", "t", "e", "r", "(", ")", " ", "{", " ", "v", "a", "r", " ", "i", " ", "=", " ", "0", ";", " ", "f", "u", "n", " ", "c", "o", "u", "n", "t", "(", ")", " ", "{", " ", "i", " ", "=", " ", "i", " ", "+", " ", "1", ";", " ", "p", "r", "i", "n", "t", " ", "i", ";", " ", "}", " ", "r", "e", "t", "u", "r", "n", " ", "c", "o", "u", "n", "t", ";", " ", "}", " ", "v", "a", "r", " ", "c", "o", "u", "n", "t", "e", "r", " ", "=", " ", "m", "a", "k", "e", "C", "o", "u", "n", "t", "e", "r", "(", ")", ";">>
        \o CounterCalls(n)

RECURSIVE CounterExpected(_)
CounterExpected(n) ==
    IF n = 0 THEN <<>> ELSE Append(CounterExpected(n - 1), IntToString(n))

\* a function that writes the variable of the block that declares it, which
\* the block then reads
SharedFrameSrc == <<"{", " ", "v", "a", "r", " ", "i", " ", "=", " ", "0", ";", " ", "f", "u", "n", " ", "i", "n", "c", "(", ")", " ", "{", " ", "i", " ", "=", " ", "i", " ", "+", " ", "1", ";", " ", "}", " ", "i", "n", "c", "(", ")", ";", " ", "i", "n", "c", "(", ")", ";", " ", "p", "r", "i", "n", "t", " ", "i", ";", " ", "}">>

\* A function whose `return` sits under d enclosing statements, or in a
\* function declared inside it, or that has no `return`:
\*   0: fun f() { print "in"; return v; print "no"; } print f(); print "after";
\*   1: ... { return v; } ...      2: ... while (true) { if (true) { return v; } } ...
\*   inner: fun f() { fun g() { return v; } var r = g(); print "in"; return r; print "no"; }
\*   none:  fun f() { print "in"; }
ReturnKinds == {"0", "1", "2", "inner", "none"}

\* the values `return` is given: a literal, or nothing (`return;`)
ReturnValues == Literals \cup {[src |-> <<>>, shown |-> "nil"]}

ReturnStmt(v) == <<"r", "e", "t", "u", "r", "n", " ">> \o v.src \o <<";", " ">>

ReturnBody(c) ==
    CASE c.kind = "0" -> <<"p", "r", "i", "n", "t", " ", "\"", "i", "n", "\"", ";", " ">> \o ReturnStmt(c.v) \o <<"p", "r", "i", "n", "t", " ", "\"", "n", "o", "\"", ";", " ">>
      [] c.kind = "1" ->
            <<"p", "r", "i", "n", "t", " ", "\"", "i", "n", "\"", ";", " ", "{", " ">> \o ReturnStmt(c.v) \o <<"}", " ", "p", "r", "i", "n", "t", " ", "\"", "n", "o", "\"", ";", " ">>
      [] c.kind = "2" ->
            <<"p", "r", "i", "n", "t", " ", "\"", "i", "n", "\"", ";", " ", "w", "h", "i", "l", "e", " ", "(", "t", "r", "u", "e", ")", " ", "{", " ", "i", "f", " ", "(", "t", "r", "u", "e", ")", " ", "{", " ">> \o ReturnStmt(c.v)
                \o <<"}", " ", "p", "r", "i", "n", "t", " ", "\"", "n", "o", "\"", ";", " ", "}", " ", "p", "r", "i", "n", "t", " ", "\"", "n", "o", "\"", ";", " ">>
      [] c.kind = "inner" ->
            <<"f", "u", "n", " ", "g", "(", ")", " ", "{", " ">> \o ReturnStmt(c.v)
                \o <<"p", "r", "i", "n", "t", " ", "\"", "n", "o", "\"", ";", " ", "}", " ", "v", "a", "r", " ", "r", " ", "=", " ", "g", "(", ")", ";", " ", "p", "r", "i", "n", "t", " ", "\"", "i", "n", "\"", ";", " ", "r", "e", "t", "u", "r", "n", " ", "r", ";", " ", "p", "r", "i", "n", "t", " ", "\"", "n", "o", "\"", ";", " ">>
      [] c.kind = "none" -> <<"p", "r", "i", "n", "t", " ", "\"", "i", "n", "\"", ";", " ">>

ReturnSrc(c) == <<"f", "u", "n", " ", "f", "(", ")", " ", "{", " ">> \o ReturnBody(c) \o <<"}", " ", "p", "r", "i", "n", "t", " ", "f", "(", ")", ";", " ", "p", "r", "i", "n", "t", " ", "\"", "a", "f", "t", "e", "r", "\"", ";">>

ReturnExpected(c) ==
    <<"in", IF c.kind = "none" THEN "nil" ELSE c.v.shown, "after">>

ReturnCases == [kind : ReturnKinds, v : ReturnValues]

FunThenReturnSrc == <<"f", "u", "n", " ", "f", "(", ")", " ", "{", " ", "r", "e", "t", "u", "r", "n", " ", "1", ";", " ", "}", " ", "p", "r", "i", "n", "t", " ", "f", "(", ")", ";", " ", "r", "e", "t", "u", "r", "n", " ", "2", ";">>

\* `return` outside any function: alone, after other statements, inside
\* control flow, and after a function or class whose body returns
TopReturnSrcs ==
    {<<"r", "e", "t", "u", "r", "n", ";">>,
     <<"r", "e", "t", "u", "r", "n", " ", "1", ";">>,
     <<"p", "r", "i", "n", "t", " ", "1", ";", " ", "v", "a", "r", " ", "a", " ", "=", " ", "2", ";", " ", "r", "e", "t", "u", "r", "n", " ", "a", ";">>,
     <<"{", " ", "p", "r", "i", "n", "t", " ", "1", ";", " ", "r", "e", "t", "u", "r", "n", ";", " ", "}">>,
     <<"i", "f", " ", "(", "t", "r", "u", "e", ")", " ", "r", "e", "t", "u", "r", "n", " ", "1", ";">>,
     <<"w", "h", "i", "l", "e", " ", "(", "t", "r", "u", "e", ")", " ", "{", " ", "r", "e", "t", "u", "r", "n", ";", " ", "}">>,
     FunThenReturnSrc,
     <<"f", "u", "n", " ", "f", "(", ")", " ", "{", " ", "f", "u", "n", " ", "g", "(", ")", " ", "{", " ", "r", "e", "t", "u", "r", "n", " ", "1", ";", " ", "}", " ", "}", " ", "r", "e", "t", "u", "r", "n", ";">>,
     <<"c", "l", "a", "s", "s", " ", "A", " ", "{", " ", "m", "(", ")", " ", "{", " ", "r", "e", "t", "u", "r", "n", " ", "1", ";", " ", "}", " ", "}", " ", "r", "e", "t", "u", "r", "n", ";">>}

\* `return` in a function after a nested function or a method has ended
InnerReturnSrcs ==
    {<<"f", "u", "n", " ", "f", "(", ")", " ", "{", " ", "f", "u", "n", " ", "g", "(", ")", " ", "{", " ", "r", "e", "t", "u", "r", "n", " ", "1", ";", " ", "}", " ", "r", "e", "t", "u", "r", "n", " ", "g", "(", ")", ";", " ", "}", " ", "p", "r", "i", "n", "t", " ", "f", "(", ")", ";">>,
     <<"f", "u", "n", " ", "f", "(", ")", " ", "{", " ", "c", "l", "a", "s", "s", " ", "A", " ", "{", " ", "m", "(", ")", " ", "{", " ", "r", "e", "t", "u", "r", "n", " ", "2", ";", " ", "}", " ", "}", " ", "r", "e", "t", "u", "r", "n", " ", "1", ";", " ", "}", " ", "p", "r", "i", "n", "t", " ", "f", "(", ")", ";">>}

\* Calling a class, its `init` and its other methods:
\*   plain:  class A { init(n) { this.n = n; } } var a = A(v); print a; print a.n;
\*   bare:   class A { init(n) { this.n = n; return; this.n = 0; } } ...
\*   direct: class A { init(n) { this.n = n; } } var a = A(0); var b = a.init(v);
\*           print b; print a.n; b.n = 5; print a.n;
\*   early:  the same with `return;` in init
\*   method: class A { get() { return v; } noop() { } } var a = A();
\*           print a.get(); print a.noop();
\*   noinit: class A { } print A();
\*   super:  class A { init(n) { this.n = n; } } class B < A { } var a = B(v);
\*           print a; print a.n;
InitKinds == {"plain", "bare", "direct", "early", "method", "noinit", "super"}

InitClass(c) ==
    CASE c.kind \in {"plain", "direct", "super"} -> <<"c", "l", "a", "s", "s", " ", "A", " ", "{", " ", "i", "n", "i", "t", "(", "n", ")", " ", "{", " ", "t", "h", "i", "s", ".", "n", " ", "=", " ", "n", ";", " ", "}", " ", "}", " ">>
      [] c.kind \in {"bare", "early"} ->
            <<"c", "l", "a", "s", "s", " ", "A", " ", "{", " ", "i", "n", "i", "t", "(", "n", ")", " ", "{", " ", "t", "h", "i", "s", ".", "n", " ", "=", " ", "n", ";", " ", "r", "e", "t", "u", "r", "n", ";", " ", "t", "h", "i", "s", ".", "n", " ", "=", " ", "0", ";", " ", "}", " ", "}", " ">>
      [] c.kind = "method" ->
            <<"c", "l", "a", "s", "s", " ", "A", " ", "{", " ", "g", "e", "t", "(", ")", " ", "{", " ", "r", "e", "t", "u", "r", "n", " ">> \o c.v.src \o <<";", " ", "}", " ", "n", "o", "o", "p", "(", ")", " ", "{", " ", "}", " ", "}", " ">>
      [] c.kind = "noinit" -> <<"c", "l", "a", "s", "s", " ", "A", " ", "{", " ", "}", " ">>

InitUse(c) ==
    CASE c.kind \in {"plain", "bare"} ->
            <<"v", "a", "r", " ", "a", " ", "=", " ", "A", "(">> \o c.v.src \o <<")", ";", " ", "p", "r", "i", "n", "t", " ", "a", ";", " ", "p", "r", "i", "n", "t", " ", "a", ".", "n", ";">>
      [] c.kind \in {"direct", "early"} ->
            <<"v", "a", "r", " ", "a", " ", "=", " ", "A", "(", "0", ")", ";", " ", "v", "a", "r", " ", "b", " ", "=", " ", "a", ".", "i", "n", "i", "t", "(">> \o c.v.src
                \o <<")", ";", " ", "p", "r", "i", "n", "t", " ", "b", ";", " ", "p", "r", "i", "n", "t", " ", "a", ".", "n", ";", " ", "b", ".", "n", " ", "=", " ", "5", ";", " ", "p", "r", "i", "n", "t", " ", "a", ".", "n", ";">>
      [] c.kind = "method" -> <<"v", "a", "r", " ", "a", " ", "=", " ", "A", "(", ")", ";", " ", "p", "r", "i", "n", "t", " ", "a", ".", "g", "e", "t", "(", ")", ";", " ", "p", "r", "i", "n", "t", " ", "a", ".", "n", "o", "o", "p", "(", ")", ";">>
      [] c.kind = "noinit" -> <<"p", "r", "i", "n", "t", " ", "A", "(", ")", ";">>
      [] c.kind = "super" ->
            <<"c", "l", "a", "s", "s", " ", "B", " ", "<", " ", "A", " ", "{", " ", "}", " ", "v", "a", "r", " ", "a", " ", "=", " ", "B", "(">> \o c.v.src \o <<")", ";", " ", "p", "r", "i", "n", "t", " ", "a", ";", " ", "p", "r", "i", "n", "t", " ", "a", ".", "n", ";">>

InitSrc(c) == InitClass(c) \o InitUse(c)

InitExpected(c) ==
    CASE c.kind \in {"plain", "bare"} -> <<"A instance", c.v.shown>>
      [] c.kind \in {"direct", "early"} -> <<"A instance", c.v.shown, "5">>
      [] c.kind = "method" -> <<c.v.shown, "nil">>
      [] c.kind = "noinit" -> <<"A instance">>
      [] c.kind = "super" -> <<"B instance", c.v.shown>>

InitCases == [kind : InitKinds, v : Literals]

\* `return` in an initializer and near one:
\*   value:    class A { init() { return v; } } print A();
\*   block:    class A { init() { if (true) { return v; } } } print A();
\*   bare:     class A { init() { return; } } print A();
\*   method:   class A { m() { return v; } } print A().m();
\*   function: class A { init() { fun g() { return v; } this.n = g(); } } print A().n;
\*   named:    fun init() { return v; } print init();
InitReturnKinds == {"value", "block", "bare", "method", "function", "named"}

InitReturnSrc(c) ==
    CASE c.kind = "value" -> <<"c", "l", "a", "s", "s", " ", "A", " ", "{", " ", "i", "n", "i", "t", "(", ")", " ", "{", " ", "r", "e", "t", "u", "r", "n", " ">> \o c.v.src \o <<";", " ", "}", " ", "}", " ", "p", "r", "i", "n", "t", " ", "A", "(", ")", ";">>
      [] c.kind = "block" ->
            <<"c", "l", "a", "s", "s", " ", "A", " ", "{", " ", "i", "n", "i", "t", "(", ")", " ", "{", " ", "i", "f", " ", "(", "t", "r", "u", "e", ")", " ", "{", " ", "r", "e", "t", "u", "r", "n", " ">> \o c.v.src \o <<";", " ", "}", " ", "}", " ", "}", " ", "p", "r", "i", "n", "t", " ", "A", "(", ")", ";">>
      [] c.kind = "bare" -> <<"c", "l", "a", "s", "s", " ", "A", " ", "{", " ", "i", "n", "i", "t", "(", ")", " ", "{", " ", "r", "e", "t", "u", "r", "n", ";", " ", "}", " ", "}", " ", "p", "r", "i", "n", "t", " ", "A", "(", ")", ";">>
      [] c.kind = "method" ->
            <<"c", "l", "a", "s", "s", " ", "A", " ", "{", " ", "m", "(", ")", " ", "{", " ", "r", "e", "t", "u", "r", "n", " ">> \o c.v.src \o <<";", " ", "}", " ", "}", " ", "p", "r", "i", "n", "t", " ", "A", "(", ")", ".", "m", "(", ")", ";">>
      [] c.kind = "function" ->
            <<"c", "l", "a", "s", "s", " ", "A", " ", "{", " ", "i", "n", "i", "t", "(", ")", " ", "{", " ", "f", "u", "n", " ", "g", "(", ")", " ", "{", " ", "r", "e", "t", "u", "r", "n", " ">> \o c.v.src
                \o <<";", " ", "}", " ", "t", "h", "i", "s", ".", "n", " ", "=", " ", "g", "(", ")", ";", " ", "}", " ", "}", " ", "p", "r", "i", "n", "t", " ", "A", "(", ")", ".", "n", ";">>
      [] c.kind = "named" ->
            <<"f", "u", "n", " ", "i", "n", "i", "t", "(", ")", " ", "{", " ", "r", "e", "t", "u", "r", "n", " ">> \o c.v.src \o <<";", " ", "}", " ", "p", "r", "i", "n", "t", " ", "i", "n", "i", "t", "(", ")", ";">>

InitReturnCases == [kind : InitReturnKinds, v : Literals]

\* Texts with errors of several stages at once; each starts with a statement
\* that would print
ScanParseRuntimeSrc == <<"p", "r", "i", "n", "t", " ", "1", ";", " ", "p", "r", "i", "n", "t", " ", "n", "o", "p", "e", ";", " ", "p", "r", "i", "n", "t", " ", ";", " ", "@">>

ParseResolveRuntimeSrc == <<"p", "r", "i", "n", "t", " ", "1", ";", " ", "p", "r", "i", "n", "t", " ", "n", "o", "p", "e", ";", " ", "r", "e", "t", "u", "r", "n", ";", " ", "{", " ", "v", "a", "r", " ", "a", " ", "=", " ", "a", ";", " ", "}", " ", "p", "r", "i", "n", "t", " ", ";">>

ResolveRuntimeSrc == <<"p", "r", "i", "n", "t", " ", "1", ";", " ", "v", "a", "r", " ", "g", " ", "=", " ", "2", ";", " ", "{", " ", "v", "a", "r", " ", "a", " ", "=", " ", "1", ";", " ", "p", "r", "i", "n", "t", " ", "a", ";", " ", "}", " ", "p", "r", "i", "n", "t", " ", "n", "o", "p", "e", ";", " ", "r", "e", "t", "u", "r", "n", ";">>

RuntimeSrc == <<"p", "r", "i", "n", "t", " ", "1", ";", " ", "{", " ", "v", "a", "r", " ", "a", " ", "=", " ", "1", ";", " ", "f", "u", "n", " ", "f", "(", ")", " ", "{", " ", "{", " ", "r", "e", "t", "u", "r", "n", " ", "n", "o", "p", "e", ";", " ", "}", " ", "}", " ", "f", "(", ")", ";", " ", "}", " ", "p", "r", "i", "n", "t", " ", "2", ";">>

MixedSrcs == {ScanParseRuntimeSrc, ParseResolveRuntimeSrc, ResolveRuntimeSrc, RuntimeSrc}

\* The scripts run_file is given and the lines run_prompt reads.
\* Handles of an instance:
\*   alias:    class A {} var a = A(); var b = a; a.f = v; print b.f; b.f = 2; print a.f;
\*   argument: class A {} fun set(o) { o.f = v; } var a = A(); set(a); print a.f;
\*   this:     class A { set() { this.f = v; } } var a = A(); a.set(); print a.f;
\*   separate: class A {} var a = A(); var b = A(); a.f = v; b.f = 2; print a.f; print b.f;
HandleKinds == {"alias", "argument", "this", "separate"}

HandleSrc(c) ==
    CASE c.kind = "alias" ->
            <<"c", "l", "a", "s", "s", " ", "A", " ", "{", "}", " ", "v", "a", "r", " ", "a", " ", "=", " ", "A", "(", ")", ";", " ", "v", "a", "r", " ", "b", " ", "=", " ", "a", ";", " ", "a", ".", "f", " ", "=", " ">> \o c.v.src
                \o <<";", " ", "p", "r", "i", "n", "t", " ", "b", ".", "f", ";", " ", "b", ".", "f", " ", "=", " ", "2", ";", " ", "p", "r", "i", "n", "t", " ", "a", ".", "f", ";">>
      [] c.kind = "argument" ->
            <<"c", "l", "a", "s", "s", " ", "A", " ", "{", "}", " ", "f", "u", "n", " ", "s", "e", "t", "(", "o", ")", " ", "{", " ", "o", ".", "f", " ", "=", " ">> \o c.v.src
                \o <<";", " ", "}", " ", "v", "a", "r", " ", "a", " ", "=", " ", "A", "(", ")", ";", " ", "s", "e", "t", "(", "a", ")", ";", " ", "p", "r", "i", "n", "t", " ", "a", ".", "f", ";">>
      [] c.kind = "this" ->
            <<"c", "l", "a", "s", "s", " ", "A", " ", "{", " ", "s", "e", "t", "(", ")", " ", "{", " ", "t", "h", "i", "s", ".", "f", " ", "=", " ">> \o c.v.src
                \o <<";", " ", "}", " ", "}", " ", "v", "a", "r", " ", "a", " ", "=", " ", "A", "(", ")", ";", " ", "a", ".", "s", "e", "t", "(", ")", ";", " ", "p", "r", "i", "n", "t", " ", "a", ".", "f", ";">>
      [] c.kind = "separate" ->
            <<"c", "l", "a", "s", "s", " ", "A", " ", "{", "}", " ", "v", "a", "r", " ", "a", " ", "=", " ", "A", "(", ")", ";", " ", "v", "a", "r", " ", "b", " ", "=", " ", "A", "(", ")", ";", " ", "a", ".", "f", " ", "=", " ">> \o c.v.src
                \o <<";", " ", "b", ".", "f", " ", "=", " ", "2", ";", " ", "p", "r", "i", "n", "t", " ", "a", ".", "f", ";", " ", "p", "r", "i", "n", "t", " ", "b", ".", "f", ";">>

HandleExpected(c) ==
    IF c.kind \in {"alias", "separate"} THEN <<c.v.shown, "2">> ELSE <<c.v.shown>>

HandleCases == [kind : HandleKinds, v : Literals]

\* Equality of two operands, each a literal or a global bound to a function,
\* a class or an instance:
\*   fun f() {} class A {} var i = A();
\*   print x == y; print y == x; print x != y; print x == x;
\* The numbers are 1, 1.5, 1.7, -0.5 and the NaN of 0/0.
EqOperands ==
    {[src |-> <<"n", "i", "l">>, variant |-> "Nil", nan |-> FALSE],
     [src |-> <<"t", "r", "u", "e">>, variant |-> "Bool", nan |-> FALSE],
     [src |-> <<"1">>, variant |-> "Number", nan |-> FALSE],
     [src |-> <<"1", ".", "5">>, variant |-> "Number", nan |-> FALSE],
     [src |-> <<"1", ".", "7">>, variant |-> "Number", nan |-> FALSE],
     [src |-> <<"-", "0", ".", "5">>, variant |-> "Number", nan |-> FALSE],
     [src |-> <<"(", "0", "/", "0", ")">>, variant |-> "Number", nan |-> TRUE],
     [src |-> <<"\"", "h", "i", "\"">>, variant |-> "String", nan |-> FALSE],
     [src |-> <<"f">>, variant |-> "Callable", nan |-> FALSE],
     [src |-> <<"A">>, variant |-> "Class", nan |-> FALSE],
     [src |-> <<"i">>, variant |-> "Instance", nan |-> FALSE]}

EqSrc(c) ==
    <<"f", "u", "n", " ", "f", "(", ")", " ", "{", "}", " ", "c", "l", "a", "s", "s", " ", "A", " ", "{", "}", " ", "v", "a", "r", " ", "i", " ", "=", " ", "A", "(", ")", ";", " ", "p", "r", "i", "n", "t", " ">> \o c.x.src \o <<" ", "=", "=", " ">> \o c.y.src
        \o <<";", " ", "p", "r", "i", "n", "t", " ">> \o c.y.src \o <<" ", "=", "=", " ">> \o c.x.src
        \o <<";", " ", "p", "r", "i", "n", "t", " ">> \o c.x.src \o <<" ", "!", "=", " ">> \o c.y.src
        \o <<";", " ", "p", "r", "i", "n", "t", " ">> \o c.x.src \o <<" ", "=", "=", " ">> \o c.x.src \o <<";">>

EqCases == [x : EqOperands, y : EqOperands]

\* `print x <= y;` and `print x >= y;` over numbers and other values.  Of a
\* number, `twice` is two times its value when it is finite, `inf` is -1 or
\* 1 for the infinity of that sign and `nan` says that it is NaN.
CmpNumber(src, twice) ==
    [src |-> src, number |-> TRUE, nan |-> FALSE, inf |-> 0, twice |-> twice]

CmpOther(src, nan, inf) ==
    [src |-> src, number |-> nan \/ inf /= 0, nan |-> nan, inf |-> inf, twice |-> 0]

CmpOperands ==
    {CmpNumber(<<"0">>, 0), CmpNumber(<<"1">>, 2), CmpNumber(<<"2">>, 4),
     CmpNumber(<<"1", "0">>, 20), CmpNumber(<<"-", "1">>, -2),
     CmpNumber(<<"-", "0">>, 0), CmpNumber(<<"0", ".", "5">>, 1),
     CmpNumber(<<"1", ".", "5">>, 3), CmpNumber(<<"-", "0", ".", "5">>, -1),
     CmpOther(<<"(", "1", "/", "0", ")">>, FALSE, 1),
     CmpOther(<<"(", "-", "1", "/", "0", ")">>, FALSE, -1),
     CmpOther(<<"(", "0", "/", "0", ")">>, TRUE, 0),
     CmpOther(<<"\"", "h", "i", "\"">>, FALSE, 0), CmpOther(<<"n", "i", "l">>, FALSE, 0)}

\* x is at most y, for two numbers: no number is at most NaN, nor NaN at
\* most any
AtMost(x, y) ==
    /\ ~x.nan
    /\ ~y.nan
    /\ (x.inf < y.inf \/ (x.inf = y.inf /\ x.twice <= y.twice))

CmpSrc(c) ==
    <<"p", "r", "i", "n", "t", " ">> \o c.x.src \o (IF c.op = "<=" THEN <<" ", "<", "=", " ">> ELSE <<" ", ">", "=", " ">>) \o c.y.src \o <<";">>

CmpCases == [op : {"<=", ">="}, x : CmpOperands, y : CmpOperands]

\* A local `var` whose initializer reads the declared name n; every text
\* starts with `print 0;`:
\*   block:    { var n = n; }
\*   outer:    { var n = 1; { var n = n; } }
\*   global:   var n = "outer"; { var n = n; }
\*   function: fun f() { var n = n; } f();
\*   method:   class A { m() { var n = n; } }
\*   binary:   var n = 1; { var n = n + 1; }
\*   argument: fun g(x) { return x; } var n = 1; { var n = g(n); }
SelfInitKinds == {"block", "outer", "global", "function", "method", "binary", "argument"}

SelfInitSrc(c) ==
    <<"p", "r", "i", "n", "t", " ", "0", ";", " ">> \o
    CASE c.kind = "block" -> <<"{", " ", "v", "a", "r", " ">> \o c.name \o <<" ", "=", " ">> \o c.name \o <<";", " ", "}">>
      [] c.kind = "outer" ->
            <<"{", " ", "v", "a", "r", " ">> \o c.name \o <<" ", "=", " ", "1", ";", " ", "{", " ", "v", "a", "r", " ">> \o c.name \o <<" ", "=", " ">> \o c.name
                \o <<";", " ", "}", " ", "}">>
      [] c.kind = "global" ->
            <<"v", "a", "r", " ">> \o c.name \o <<" ", "=", " ", "\"", "o", "u", "t", "e", "r", "\"", ";", " ", "{", " ", "v", "a", "r", " ">> \o c.name \o <<" ", "=", " ">> \o c.name
                \o <<";", " ", "}">>
      [] c.kind = "function" ->
            <<"f", "u", "n", " ", "f", "(", ")", " ", "{", " ", "v", "a", "r", " ">> \o c.name \o <<" ", "=", " ">> \o c.name \o <<";", " ", "}", " ", "f", "(", ")", ";">>
      [] c.kind = "method" ->
            <<"c", "l", "a", "s", "s", " ", "A", " ", "{", " ", "m", "(", ")", " ", "{", " ", "v", "a", "r", " ">> \o c.name \o <<" ", "=", " ">> \o c.name \o <<";", " ", "}", " ", "}">>
      [] c.kind = "binary" ->
            <<"v", "a", "r", " ">> \o c.name \o <<" ", "=", " ", "1", ";", " ", "{", " ", "v", "a", "r", " ">> \o c.name \o <<" ", "=", " ">> \o c.name
                \o <<" ", "+", " ", "1", ";", " ", "}">>
      [] c.kind = "argument" ->
            <<"f", "u", "n", " ", "g", "(", "x", ")", " ", "{", " ", "r", "e", "t", "u", "r", "n", " ", "x", ";", " ", "}", " ", "v", "a", "r", " ">> \o c.name \o <<" ", "=", " ", "1", ";", " ", "{", " ", "v", "a", "r", " ">> \o c.name
                \o <<" ", "=", " ", "g", "(">> \o c.name \o <<")", ";", " ", "}">>

SelfInitCases == [kind : SelfInitKinds, name : Names]

\* The name n declared twice; every text starts with `print 0;`:
\*   block:     { var n = 1; var n = 2; }
\*   function:  fun bad() { var n = "first"; var n = "second"; }
\*   params:    fun f(n, n) {}
\*   param_var: fun f(n) { var n = 1; }
\*   global:    var n = 1; var n = 2; print n;
RedeclareKinds == {"block", "function", "params", "param_var", "global"}

RedeclareSrc(c) ==
    <<"p", "r", "i", "n", "t", " ", "0", ";", " ">> \o
    CASE c.kind = "block" -> <<"{", " ", "v", "a", "r", " ">> \o c.name \o <<" ", "=", " ", "1", ";", " ", "v", "a", "r", " ">> \o c.name \o <<" ", "=", " ", "2", ";", " ", "}">>
      [] c.kind = "function" ->
            <<"f", "u", "n", " ", "b", "a", "d", "(", ")", " ", "{", " ", "v", "a", "r", " ">> \o c.name \o <<" ", "=", " ", "\"", "f", "i", "r", "s", "t", "\"", ";", " ", "v", "a", "r", " ">> \o c.name
                \o <<" ", "=", " ", "\"", "s", "e", "c", "o", "n", "d", "\"", ";", " ", "}">>
      [] c.kind = "params" -> <<"f", "u", "n", " ", "f", "(">> \o c.name \o <<",", " ">> \o c.name \o <<")", " ", "{", "}">>
      [] c.kind = "param_var" ->
            <<"f", "u", "n", " ", "f", "(">> \o c.name \o <<")", " ", "{", " ", "v", "a", "r", " ">> \o c.name \o <<" ", "=", " ", "1", ";", " ", "}">>
      [] c.kind = "global" ->
            <<"v", "a", "r", " ">> \o c.name \o <<" ", "=", " ", "1", ";", " ", "v", "a", "r", " ">> \o c.name \o <<" ", "=", " ", "2", ";", " ", "p", "r", "i", "n", "t", " ">> \o c.name
                \o <<";">>

RedeclareCases == [kind : RedeclareKinds, name : Names]

\* Calls whose callee and arguments print when they are evaluated: those of
\* the declarations
\*   fun t(x) { print x; return x; } fun f(a, b) { print "body"; }
\*   fun c() { print "callee"; return f; }
\*   class A { init(a) { print "init"; } } class B < A {} class N {}
\* that the call names, followed by the one call:
\*   order:     c()(t(1), t(2));        nil/number/string: the same with c returning that value
\*   few:       c()(t(1));              many: c()(t(1), t(2), t(3));
\*   class:     A();                    inherited: B(t(1), t(2));
\*   noinit:    N(t(1));                native: clock(t(1));
CallKinds ==
    {"order", "nil", "number", "string", "few", "many", "class", "inherited", "noinit",
     "native"}

CallPrelude(kind) ==
    <<"f", "u", "n", " ", "t", "(", "x", ")", " ", "{", " ", "p", "r", "i", "n", "t", " ", "x", ";", " ", "r", "e", "t", "u", "r", "n", " ", "x", ";", " ", "}", " ">>
        \o (IF kind \in {"order", "nil", "number", "string", "few", "many"}
            THEN <<"f", "u", "n", " ", "f", "(", "a", ",", " ", "b", ")", " ", "{", " ", "p", "r", "i", "n", "t", " ", "\"", "b", "o", "d", "y", "\"", ";", " ", "}", " ", "f", "u", "n", " ", "c", "(", ")", " ", "{", " ", "p", "r", "i", "n", "t", " ", "\"", "c", "a", "l", "l", "e", "e", "\"", ";", " ", "r", "e", "t", "u", "r", "n", " ">>
                    \o (CASE kind = "nil" -> <<"n", "i", "l">> [] kind = "number" -> <<"1">>
                          [] kind = "string" -> <<"\"", "h", "i", "\"">> [] OTHER -> <<"f">>)
                    \o <<";", " ", "}", " ">>
            ELSE <<>>)
        \o (IF kind \in {"class", "inherited"}
            THEN <<"c", "l", "a", "s", "s", " ", "A", " ", "{", " ", "i", "n", "i", "t", "(", "a", ")", " ", "{", " ", "p", "r", "i", "n", "t", " ", "\"", "i", "n", "i", "t", "\"", ";", " ", "}", " ", "}", " ">> ELSE <<>>)
        \o (IF kind = "inherited" THEN <<"c", "l", "a", "s", "s", " ", "B", " ", "<", " ", "A", " ", "{", "}", " ">> ELSE <<>>)
        \o (IF kind = "noinit" THEN <<"c", "l", "a", "s", "s", " ", "N", " ", "{", "}", " ">> ELSE <<>>)

CallSrc(kind) ==
    CallPrelude(kind) \o
    CASE kind \in {"order", "nil", "number", "string"} -> <<"c", "(", ")", "(", "t", "(", "1", ")", ",", " ", "t", "(", "2", ")", ")", ";">>
      [] kind = "few" -> <<"c", "(", ")", "(", "t", "(", "1", ")", ")", ";">>
      [] kind = "many" -> <<"c", "(", ")", "(", "t", "(", "1", ")", ",", " ", "t", "(", "2", ")", ",", " ", "t", "(", "3", ")", ")", ";">>
      [] kind = "class" -> <<"A", "(", ")", ";">>
      [] kind = "inherited" -> <<"B", "(", "t", "(", "1", ")", ",", " ", "t", "(", "2", ")", ")", ";">>
      [] kind = "noinit" -> <<"N", "(", "t", "(", "1", ")", ")", ";">>
      [] kind = "native" -> <<"c", "l", "o", "c", "k", "(", "t", "(", "1", ")", ")", ";">>

\* what the call prints, and the runtime error it ends with ("" for none)
CallExpected(kind) ==
    CASE kind = "order" -> [out |-> <<"callee", "1", "2", "body">>, msg |-> ""]
      [] kind \in {"nil", "number", "string"} ->
            [out |-> <<"callee", "1", "2">>, msg |-> "Can only call functions and classes."]
      [] kind = "few" ->
            [out |-> <<"callee", "1">>, msg |-> "Expected 2 arguments but got 1."]
      [] kind = "many" ->
            [out |-> <<"callee", "1", "2", "3">>, msg |-> "Expected 2 arguments but got 3."]
      [] kind = "class" -> [out |-> <<>>, msg |-> "Expected 1 arguments but got 0."]
      [] kind = "inherited" ->
            [out |-> <<"1", "2">>, msg |-> "Expected 1 arguments but got 2."]
      [] kind = "noinit" -> [out |-> <<"1">>, msg |-> "Expected 0 arguments but got 1."]
      [] kind = "native" -> [out |-> <<"1">>, msg |-> "Expected 0 arguments but got 1."]

\* A `for` statement and the same loop written as a block and a `while`:
ForKinds == {"full", "noinit", "noincr", "nocond", "exprinit", "zero", "after"}

ForSrc(kind) ==
    CASE kind = "full" -> <<"f", "o", "r", " ", "(", "v", "a", "r", " ", "i", " ", "=", " ", "0", ";", " ", "i", " ", "<", " ", "3", ";", " ", "i", " ", "=", " ", "i", " ", "+", " ", "1", ")", " ", "p", "r", "i", "n", "t", " ", "i", ";">>
      [] kind = "noinit" -> <<"v", "a", "r", " ", "i", " ", "=", " ", "0", ";", " ", "f", "o", "r", " ", "(", ";", " ", "i", " ", "<", " ", "2", ";", " ", "i", " ", "=", " ", "i", " ", "+", " ", "1", ")", " ", "p", "r", "i", "n", "t", " ", "i", ";", " ", "p", "r", "i", "n", "t", " ", "i", ";">>
      [] kind = "noincr" -> <<"f", "o", "r", " ", "(", "v", "a", "r", " ", "i", " ", "=", " ", "0", ";", " ", "i", " ", "<", " ", "2", ";", ")", " ", "{", " ", "p", "r", "i", "n", "t", " ", "i", ";", " ", "i", " ", "=", " ", "i", " ", "+", " ", "1", ";", " ", "}">>
      [] kind = "nocond" ->
            <<"f", "u", "n", " ", "f", "(", ")", " ", "{", " ", "f", "o", "r", " ", "(", "v", "a", "r", " ", "i", " ", "=", " ", "0", ";", " ", ";", " ", "i", " ", "=", " ", "i", " ", "+", " ", "1", ")", " ", "{", " ", "i", "f", " ", "(", "i", " ", ">", "=", " ", "2", ")", " ", "r", "e", "t", "u", "r", "n", " ", "i", ";", " ", "p", "r", "i", "n", "t", " ", "i", ";", " ", "}", " ", "}", " ", "p", "r", "i", "n", "t", " ", "f", "(", ")", ";">>
      [] kind = "exprinit" -> <<"v", "a", "r", " ", "i", ";", " ", "f", "o", "r", " ", "(", "i", " ", "=", " ", "1", ";", " ", "i", " ", "<", " ", "3", ";", " ", "i", " ", "=", " ", "i", " ", "+", " ", "1", ")", " ", "p", "r", "i", "n", "t", " ", "i", ";">>
      [] kind = "zero" -> <<"f", "o", "r", " ", "(", "v", "a", "r", " ", "i", " ", "=", " ", "5", ";", " ", "i", " ", "<", " ", "3", ";", " ", "i", " ", "=", " ", "i", " ", "+", " ", "1", ")", " ", "p", "r", "i", "n", "t", " ", "i", ";", " ", "p", "r", "i", "n", "t", " ", "\"", "e", "n", "d", "\"", ";">>
      [] kind = "after" -> <<"f", "o", "r", " ", "(", "v", "a", "r", " ", "i", " ", "=", " ", "0", ";", " ", "i", " ", "<", " ", "1", ";", " ", "i", " ", "=", " ", "i", " ", "+", " ", "1", ")", " ", "p", "r", "i", "n", "t", " ", "i", ";", " ", "p", "r", "i", "n", "t", " ", "i", ";">>

WhileSrc(kind) ==
    CASE kind = "full" -> <<"{", " ", "v", "a", "r", " ", "i", " ", "=", " ", "0", ";", " ", "w", "h", "i", "l", "e", " ", "(", "i", " ", "<", " ", "3", ")", " ", "{", " ", "p", "r", "i", "n", "t", " ", "i", ";", " ", "i", " ", "=", " ", "i", " ", "+", " ", "1", ";", " ", "}", " ", "}">>
      [] kind = "noinit" -> <<"v", "a", "r", " ", "i", " ", "=", " ", "0", ";", " ", "w", "h", "i", "l", "e", " ", "(", "i", " ", "<", " ", "2", ")", " ", "{", " ", "p", "r", "i", "n", "t", " ", "i", ";", " ", "i", " ", "=", " ", "i", " ", "+", " ", "1", ";", " ", "}", " ", "p", "r", "i", "n", "t", " ", "i", ";">>
      [] kind = "noincr" -> <<"{", " ", "v", "a", "r", " ", "i", " ", "=", " ", "0", ";", " ", "w", "h", "i", "l", "e", " ", "(", "i", " ", "<", " ", "2", ")", " ", "{", " ", "p", "r", "i", "n", "t", " ", "i", ";", " ", "i", " ", "=", " ", "i", " ", "+", " ", "1", ";", " ", "}", " ", "}">>
      [] kind = "nocond" ->
            <<"f", "u", "n", " ", "f", "(", ")", " ", "{", " ", "{", " ", "v", "a", "r", " ", "i", " ", "=", " ", "0", ";", " ", "w", "h", "i", "l", "e", " ", "(", "t", "r", "u", "e", ")", " ", "{", " ", "{", " ", "i", "f", " ", "(", "i", " ", ">", "=", " ", "2", ")", " ", "r", "e", "t", "u", "r", "n", " ", "i", ";", " ", "p", "r", "i", "n", "t", " ", "i", ";", " ", "}", " ", "i", " ", "=", " ", "i", " ", "+", " ", "1", ";", " ", "}", " ", "}", " ", "}", " ", "p", "r", "i", "n", "t", " ", "f", "(", ")", ";">>
      [] kind = "exprinit" -> <<"v", "a", "r", " ", "i", ";", " ", "{", " ", "i", " ", "=", " ", "1", ";", " ", "w", "h", "i", "l", "e", " ", "(", "i", " ", "<", " ", "3", ")", " ", "{", " ", "p", "r", "i", "n", "t", " ", "i", ";", " ", "i", " ", "=", " ", "i", " ", "+", " ", "1", ";", " ", "}", " ", "}">>
      [] kind = "zero" -> <<"{", " ", "v", "a", "r", " ", "i", " ", "=", " ", "5", ";", " ", "w", "h", "i", "l", "e", " ", "(", "i", " ", "<", " ", "3", ")", " ", "{", " ", "p", "r", "i", "n", "t", " ", "i", ";", " ", "i", " ", "=", " ", "i", " ", "+", " ", "1", ";", " ", "}", " ", "}", " ", "p", "r", "i", "n", "t", " ", "\"", "e", "n", "d", "\"", ";">>
      [] kind = "after" -> <<"{", " ", "v", "a", "r", " ", "i", " ", "=", " ", "0", ";", " ", "w", "h", "i", "l", "e", " ", "(", "i", " ", "<", " ", "1", ")", " ", "{", " ", "p", "r", "i", "n", "t", " ", "i", ";", " ", "i", " ", "=", " ", "i", " ", "+", " ", "1", ";", " ", "}", " ", "}", " ", "p", "r", "i", "n", "t", " ", "i", ";">>

ForExpected(kind) ==
    CASE kind = "full" -> <<"0", "1", "2">>
      [] kind = "noinit" -> <<"0", "1", "2">>
      [] kind = "noincr" -> <<"0", "1">>
      [] kind = "nocond" -> <<"0", "1", "2">>
      [] kind = "exprinit" -> <<"1", "2">>
      [] kind = "zero" -> <<"end">>
      [] kind = "after" -> <<"0">>

\* Every text of up to MaxLen characters over an alphabet with a keyword
\* (`or`), identifier characters, a digit, the quote, a character the
\* scanner does not know, blank, newline, slash and dot
MaxLen == 3

ScanAlphabet == {"o", "r", "_", "1", "\"", "@", " ", "\n", "/", "."}

ScanTexts == UNION {[1..n -> ScanAlphabet] : n \in 1..MaxLen}

\* Scripts whose first id-carrying expression is a reference met with a known
\* scope stack:
DepthKinds == {"one", "outer", "global", "shadow", "assign", "param", "this", "super",
               "nestedthis"}

DepthSrc(kind) ==
    CASE kind = "one" -> <<"{", " ", "v", "a", "r", " ", "x", " ", "=", " ", "1", ";", " ", "p", "r", "i", "n", "t", " ", "x", ";", " ", "}">>
      [] kind = "outer" -> <<"{", " ", "v", "a", "r", " ", "x", " ", "=", " ", "1", ";", " ", "{", " ", "v", "a", "r", " ", "y", " ", "=", " ", "2", ";", " ", "p", "r", "i", "n", "t", " ", "x", ";", " ", "}", " ", "}">>
      [] kind = "global" -> <<"v", "a", "r", " ", "x", " ", "=", " ", "1", ";", " ", "{", " ", "v", "a", "r", " ", "y", " ", "=", " ", "2", ";", " ", "p", "r", "i", "n", "t", " ", "x", ";", " ", "}">>
      [] kind = "shadow" -> <<"{", " ", "v", "a", "r", " ", "x", " ", "=", " ", "1", ";", " ", "{", " ", "v", "a", "r", " ", "x", " ", "=", " ", "2", ";", " ", "p", "r", "i", "n", "t", " ", "x", ";", " ", "}", " ", "}">>
      [] kind = "assign" -> <<"{", " ", "v", "a", "r", " ", "x", " ", "=", " ", "1", ";", " ", "{", " ", "v", "a", "r", " ", "x", " ", "=", " ", "2", ";", " ", "x", " ", "=", " ", "3", ";", " ", "}", " ", "}">>
      [] kind = "param" -> <<"{", " ", "v", "a", "r", " ", "x", " ", "=", " ", "1", ";", " ", "f", "u", "n", " ", "f", "(", "x", ")", " ", "{", " ", "p", "r", "i", "n", "t", " ", "x", ";", " ", "}", " ", "}">>
      [] kind = "this" -> <<"c", "l", "a", "s", "s", " ", "A", " ", "{", " ", "m", "(", ")", " ", "{", " ", "r", "e", "t", "u", "r", "n", " ", "t", "h", "i", "s", ";", " ", "}", " ", "}">>
      [] kind = "super" -> <<"c", "l", "a", "s", "s", " ", "B", " ", "<", " ", "A", " ", "{", " ", "m", "(", ")", " ", "{", " ", "r", "e", "t", "u", "r", "n", " ", "s", "u", "p", "e", "r", ".", "m", ";", " ", "}", " ", "}">>
      [] kind = "nestedthis" -> <<"c", "l", "a", "s", "s", " ", "A", " ", "{", " ", "m", "(", ")", " ", "{", " ", "c", "l", "a", "s", "s", " ", "B", " ", "{", " ", "n", "(", ")", " ", "{", " ", "r", "e", "t", "u", "r", "n", " ", "t", "h", "i", "s", ";", " ", "}", " ", "}", " ", "}", " ", "}">>

\* the id of the reference and the index, from the innermost scope, of the
\* first scope holding its name (none when no scope holds it)
DepthExpected(kind) ==
    CASE kind = "one" -> (0 :> 0)
      [] kind = "outer" -> (0 :> 1)
      [] kind = "global" -> <<>>
      [] kind = "shadow" -> (0 :> 0)
      [] kind = "assign" -> (0 :> 0)
      [] kind = "param" -> (0 :> 0)
      [] kind = "this" -> (0 :> 1)
      [] kind = "super" -> (1 :> 2)
      [] kind = "nestedthis" -> (0 :> 1)

\* Programs that read and write at a recorded depth (through blocks, calls,
\* closures, `this` and `super`) and programs whose reference has no recorded
\* depth while a frame of the chain holds the name:
CouplingKinds == {"block", "call", "closure", "this", "super", "globalread", "globalwrite"}

CouplingSrc(kind) ==
    CASE kind = "block" -> <<"{", " ", "v", "a", "r", " ", "a", " ", "=", " ", "1", ";", " ", "{", " ", "v", "a", "r", " ", "b", " ", "=", " ", "2", ";", " ", "{", " ", "p", "r", "i", "n", "t", " ", "a", ";", " ", "a", " ", "=", " ", "b", ";", " ", "p", "r", "i", "n", "t", " ", "a", ";", " ", "}", " ", "}", " ", "}">>
      [] kind = "call" -> <<"f", "u", "n", " ", "f", "(", "n", ")", " ", "{", " ", "i", "f", " ", "(", "n", " ", ">", " ", "0", ")", " ", "{", " ", "p", "r", "i", "n", "t", " ", "n", ";", " ", "f", "(", "n", " ", "-", " ", "1", ")", ";", " ", "}", " ", "}", " ", "f", "(", "1", ")", ";">>
      [] kind = "closure" ->
            <<"f", "u", "n", " ", "m", "k", "(", ")", " ", "{", " ", "v", "a", "r", " ", "c", " ", "=", " ", "0", ";", " ", "f", "u", "n", " ", "i", "n", "c", "(", ")", " ", "{", " ", "c", " ", "=", " ", "c", " ", "+", " ", "1", ";", " ", "r", "e", "t", "u", "r", "n", " ", "c", ";", " ", "}", " ", "r", "e", "t", "u", "r", "n", " ", "i", "n", "c", ";", " ", "}", " ", "v", "a", "r", " ", "i", " ", "=", " ", "m", "k", "(", ")", ";", " ", "p", "r", "i", "n", "t", " ", "i", "(", ")", ";", " ", "p", "r", "i", "n", "t", " ", "i", "(", ")", ";">>
      [] kind = "this" ->
            <<"c", "l", "a", "s", "s", " ", "P", " ", "{", " ", "i", "n", "i", "t", "(", "n", ")", " ", "{", " ", "t", "h", "i", "s", ".", "n", " ", "=", " ", "n", ";", " ", "}", " ", "g", "e", "t", "(", ")", " ", "{", " ", "f", "u", "n", " ", "g", "(", ")", " ", "{", " ", "r", "e", "t", "u", "r", "n", " ", "t", "h", "i", "s", ".", "n", ";", " ", "}", " ", "r", "e", "t", "u", "r", "n", " ", "g", "(", ")", ";", " ", "}", " ", "}", " ", "p", "r", "i", "n", "t", " ", "P", "(", "7", ")", ".", "g", "e", "t", "(", ")", ";">>
      [] kind = "super" ->
            <<"c", "l", "a", "s", "s", " ", "A", " ", "{", " ", "m", "(", ")", " ", "{", " ", "r", "e", "t", "u", "r", "n", " ", "\"", "A", "\"", ";", " ", "}", " ", "}", " ", "c", "l", "a", "s", "s", " ", "B", " ", "<", " ", "A", " ", "{", " ", "m", "(", ")", " ", "{", " ", "v", "a", "r", " ", "s", " ", "=", " ", "s", "u", "p", "e", "r", ".", "m", "(", ")", ";", " ", "r", "e", "t", "u", "r", "n", " ", "s", " ", "+", " ", "\"", "B", "\"", ";", " ", "}", " ", "}", " ", "p", "r", "i", "n", "t", " ", "B", "(", ")", ".", "m", "(", ")", ";">>
      [] kind = "globalread" -> <<"v", "a", "r", " ", "a", " ", "=", " ", "\"", "g", "\"", ";", " ", "{", " ", "f", "u", "n", " ", "f", "(", ")", " ", "{", " ", "p", "r", "i", "n", "t", " ", "a", ";", " ", "}", " ", "v", "a", "r", " ", "a", " ", "=", " ", "\"", "l", "\"", ";", " ", "f", "(", ")", ";", " ", "}">>
      [] kind = "globalwrite" ->
            <<"v", "a", "r", " ", "a", " ", "=", " ", "\"", "g", "\"", ";", " ", "{", " ", "f", "u", "n", " ", "f", "(", ")", " ", "{", " ", "a", " ", "=", " ", "\"", "w", "\"", ";", " ", "}", " ", "v", "a", "r", " ", "a", " ", "=", " ", "\"", "l", "\"", ";", " ", "f", "(", ")", ";", " ", "p", "r", "i", "n", "t", " ", "a", ";", " ", "}", " ", "p", "r", "i", "n", "t", " ", "a", ";">>

CouplingExpected(kind) ==
    CASE kind = "block" -> <<"1", "2">>
      [] kind = "call" -> <<"1">>
      [] kind = "closure" -> <<"1", "2">>
      [] kind = "this" -> <<"7">>
      [] kind = "super" -> <<"AB">>
      [] kind = "globalread" -> <<"g">>
      [] kind = "globalwrite" -> <<"l", "w">>

\* the greatest recorded depth the program reads or writes at
CouplingDeepest(kind) ==
    CASE kind = "block" -> 2
      [] kind = "call" -> 1
      [] kind = "closure" -> 1
      [] kind = "this" -> 2
      [] kind = "super" -> 2
      [] kind = "globalread" -> 0
      [] kind = "globalwrite" -> 0

\* `print a() or b();` and `print a() and b();` where a returns the operand
\* under test and both functions print their name when called:
LogicalOperands ==
    {[src |-> <<"n", "i", "l">>, shown |-> "nil", truthy |-> FALSE],
     [src |-> <<"f", "a", "l", "s", "e">>, shown |-> "false", truthy |-> FALSE],
     [src |-> <<"t", "r", "u", "e">>, shown |-> "true", truthy |-> TRUE],
     [src |-> <<"0">>, shown |-> "0", truthy |-> TRUE],
     [src |-> <<"\"", "\"">>, shown |-> "", truthy |-> TRUE],
     [src |-> <<"\"", "s", "\"">>, shown |-> "s", truthy |-> TRUE]}

LogicalCases == [operand : LogicalOperands, op : {<<"o", "r">>, <<"a", "n", "d">>}]

LogicalSrc(c) ==
    <<"f", "u", "n", " ", "a", "(", ")", " ", "{", " ", "p", "r", "i", "n", "t", " ", "\"", "a", "\"", ";", " ", "r", "e", "t", "u", "r", "n", " ">> \o c.operand.src
        \o <<";", " ", "}", " ", "f", "u", "n", " ", "b", "(", ")", " ", "{", " ", "p", "r", "i", "n", "t", " ", "\"", "b", "\"", ";", " ", "r", "e", "t", "u", "r", "n", " ", "2", ";", " ", "}", " ", "p", "r", "i", "n", "t", " ", "a", "(", ")", " ">> \o c.op \o <<" ", "b", "(", ")", ";">>

\* Property reads: a field beside a method of its name, own, inherited and
\* overridden methods, a missing property, a property of a value that is no
\* instance:
GetKinds == {"field", "method", "inherited", "override", "nearest", "boundinherited",
             "undefined", "string", "class", "nil"}

GetSrc(kind) ==
    CASE kind = "field" ->
            <<"c", "l", "a", "s", "s", " ", "A", " ", "{", " ", "m", "(", ")", " ", "{", " ", "r", "e", "t", "u", "r", "n", " ", "\"", "m", "e", "t", "h", "o", "d", "\"", ";", " ", "}", " ", "}", " ", "v", "a", "r", " ", "a", " ", "=", " ", "A", "(", ")", ";", " ", "p", "r", "i", "n", "t", " ", "a", ".", "m", "(", ")", ";", " ", "a", ".", "m", " ", "=", " ", "\"", "f", "i", "e", "l", "d", "\"", ";", " ", "p", "r", "i", "n", "t", " ", "a", ".", "m", ";">>
      [] kind = "method" ->
            <<"c", "l", "a", "s", "s", " ", "A", " ", "{", " ", "m", "(", ")", " ", "{", " ", "r", "e", "t", "u", "r", "n", " ", "t", "h", "i", "s", ".", "x", ";", " ", "}", " ", "}", " ", "v", "a", "r", " ", "a", " ", "=", " ", "A", "(", ")", ";", " ", "a", ".", "x", " ", "=", " ", "5", ";", " ", "v", "a", "r", " ", "f", " ", "=", " ", "a", ".", "m", ";", " ", "p", "r", "i", "n", "t", " ", "f", "(", ")", ";">>
      [] kind = "inherited" ->
            <<"c", "l", "a", "s", "s", " ", "A", " ", "{", " ", "m", "(", ")", " ", "{", " ", "r", "e", "t", "u", "r", "n", " ", "\"", "A", "\"", ";", " ", "}", " ", "}", " ", "c", "l", "a", "s", "s", " ", "B", " ", "<", " ", "A", " ", "{", "}", " ", "p", "r", "i", "n", "t", " ", "B", "(", ")", ".", "m", "(", ")", ";">>
      [] kind = "override" ->
            <<"c", "l", "a", "s", "s", " ", "A", " ", "{", " ", "m", "(", ")", " ", "{", " ", "r", "e", "t", "u", "r", "n", " ", "\"", "A", "\"", ";", " ", "}", " ", "}", " ", "c", "l", "a", "s", "s", " ", "B", " ", "<", " ", "A", " ", "{", " ", "m", "(", ")", " ", "{", " ", "r", "e", "t", "u", "r", "n", " ", "\"", "B", "\"", ";", " ", "}", " ", "}", " ", "p", "r", "i", "n", "t", " ", "B", "(", ")", ".", "m", "(", ")", ";", " ", "p", "r", "i", "n", "t", " ", "A", "(", ")", ".", "m", "(", ")", ";">>
      [] kind = "nearest" ->
            <<"c", "l", "a", "s", "s", " ", "A", " ", "{", " ", "m", "(", ")", " ", "{", " ", "r", "e", "t", "u", "r", "n", " ", "\"", "A", "\"", ";", " ", "}", " ", "n", "(", ")", " ", "{", " ", "r", "e", "t", "u", "r", "n", " ", "\"", "A", "n", "\"", ";", " ", "}", " ", "}", " ", "c", "l", "a", "s", "s", " ", "B", " ", "<", " ", "A", " ", "{", " ", "m", "(", ")", " ", "{", " ", "r", "e", "t", "u", "r", "n", " ", "\"", "B", "\"", ";", " ", "}", " ", "}", " ", "c", "l", "a", "s", "s", " ", "C", " ", "<", " ", "B", " ", "{", "}", " ", "p", "r", "i", "n", "t", " ", "C", "(", ")", ".", "m", "(", ")", ";", " ", "p", "r", "i", "n", "t", " ", "C", "(", ")", ".", "n", "(", ")", ";">>
      [] kind = "boundinherited" ->
            <<"c", "l", "a", "s", "s", " ", "A", " ", "{", " ", "w", "h", "o", "(", ")", " ", "{", " ", "r", "e", "t", "u", "r", "n", " ", "t", "h", "i", "s", ".", "n", ";", " ", "}", " ", "}", " ", "c", "l", "a", "s", "s", " ", "B", " ", "<", " ", "A", " ", "{", "}", " ", "v", "a", "r", " ", "b", " ", "=", " ", "B", "(", ")", ";", " ", "b", ".", "n", " ", "=", " ", "\"", "b", "\"", ";", " ", "p", "r", "i", "n", "t", " ", "b", ".", "w", "h", "o", "(", ")", ";">>
      [] kind = "undefined" -> <<"c", "l", "a", "s", "s", " ", "A", " ", "{", " ", "m", "(", ")", " ", "{", "}", " ", "}", " ", "c", "l", "a", "s", "s", " ", "B", " ", "<", " ", "A", " ", "{", "}", " ", "p", "r", "i", "n", "t", " ", "B", "(", ")", ".", "z", ";">>
      [] kind = "string" -> <<"p", "r", "i", "n", "t", " ", "\"", "s", "\"", ".", "z", ";">>
      [] kind = "class" -> <<"c", "l", "a", "s", "s", " ", "A", " ", "{", " ", "m", "(", ")", " ", "{", "}", " ", "}", " ", "p", "r", "i", "n", "t", " ", "A", ".", "m", ";">>
      [] kind = "nil" -> <<"v", "a", "r", " ", "a", ";", " ", "p", "r", "i", "n", "t", " ", "a", ".", "z", ";">>

GetExpected(kind) ==
    CASE kind = "field" -> <<"method", "field">>
      [] kind = "method" -> <<"5">>
      [] kind = "inherited" -> <<"A">>
      [] kind = "override" -> <<"B", "A">>
      [] kind = "nearest" -> <<"B", "An">>
      [] kind = "boundinherited" -> <<"b">>
      [] OTHER -> <<>>

GetError(kind) ==
    CASE kind = "undefined" -> "Undefined property 'z'."
      [] kind = "class" -> "Only instances have properties."
      [] kind \in {"string", "nil"} -> "Only instances have properties."
      [] OTHER -> ""

\* Bound methods called away from the read that bound them:
BindKinds == {"variable", "otherfield", "twice", "init", "nested"}

BindSrc(kind) ==
    CASE kind = "variable" ->
            <<"c", "l", "a", "s", "s", " ", "A", " ", "{", " ", "m", "(", ")", " ", "{", " ", "r", "e", "t", "u", "r", "n", " ", "t", "h", "i", "s", ".", "n", ";", " ", "}", " ", "}", " ", "v", "a", "r", " ", "a", " ", "=", " ", "A", "(", ")", ";", " ", "a", ".", "n", " ", "=", " ", "\"", "a", "\"", ";", " ", "v", "a", "r", " ", "f", " ", "=", " ", "a", ".", "m", ";", " ", "p", "r", "i", "n", "t", " ", "f", "(", ")", ";">>
      [] kind = "otherfield" ->
            <<"c", "l", "a", "s", "s", " ", "A", " ", "{", " ", "m", "(", ")", " ", "{", " ", "r", "e", "t", "u", "r", "n", " ", "t", "h", "i", "s", ".", "n", ";", " ", "}", " ", "}", " ", "v", "a", "r", " ", "a", " ", "=", " ", "A", "(", ")", ";", " ", "a", ".", "n", " ", "=", " ", "\"", "a", "\"", ";", " ", "v", "a", "r", " ", "b", " ", "=", " ", "A", "(", ")", ";", " ", "b", ".", "n", " ", "=", " ", "\"", "b", "\"", ";", " ", "b", ".", "f", " ", "=", " ", "a", ".", "m", ";", " ", "p", "r", "i", "n", "t", " ", "b", ".", "f", "(", ")", ";">>
      [] kind = "twice" ->
            <<"c", "l", "a", "s", "s", " ", "A", " ", "{", " ", "m", "(", ")", " ", "{", " ", "r", "e", "t", "u", "r", "n", " ", "t", "h", "i", "s", ".", "n", ";", " ", "}", " ", "}", " ", "v", "a", "r", " ", "a", " ", "=", " ", "A", "(", ")", ";", " ", "a", ".", "n", " ", "=", " ", "\"", "a", "\"", ";", " ", "v", "a", "r", " ", "b", " ", "=", " ", "A", "(", ")", ";", " ", "b", ".", "n", " ", "=", " ", "\"", "b", "\"", ";", " ", "v", "a", "r", " ", "f", " ", "=", " ", "a", ".", "m", ";", " ", "v", "a", "r", " ", "g", " ", "=", " ", "b", ".", "m", ";", " ", "p", "r", "i", "n", "t", " ", "f", "(", ")", ";", " ", "p", "r", "i", "n", "t", " ", "g", "(", ")", ";", " ", "p", "r", "i", "n", "t", " ", "f", "(", ")", ";">>
      [] kind = "init" ->
            <<"c", "l", "a", "s", "s", " ", "A", " ", "{", " ", "i", "n", "i", "t", "(", ")", " ", "{", " ", "t", "h", "i", "s", ".", "n", " ", "=", " ", "\"", "a", "\"", ";", " ", "}", " ", "}", " ", "v", "a", "r", " ", "a", " ", "=", " ", "A", "(", ")", ";", " ", "v", "a", "r", " ", "f", " ", "=", " ", "a", ".", "i", "n", "i", "t", ";", " ", "a", ".", "n", " ", "=", " ", "\"", "b", "\"", ";", " ", "p", "r", "i", "n", "t", " ", "f", "(", ")", ".", "n", ";">>
      [] kind = "nested" ->
            <<"c", "l", "a", "s", "s", " ", "A", " ", "{", " ", "m", "(", ")", " ", "{", " ", "c", "l", "a", "s", "s", " ", "B", " ", "{", " ", "n", "(", ")", " ", "{", " ", "r", "e", "t", "u", "r", "n", " ", "t", "h", "i", "s", ";", " ", "}", " ", "}", " ", "r", "e", "t", "u", "r", "n", " ", "B", "(", ")", ".", "n", "(", ")", ";", " ", "}", " ", "}", " ", "p", "r", "i", "n", "t", " ", "A", "(", ")", ".", "m", "(", ")", ";">>

BindExpected(kind) ==
    CASE kind = "variable" -> <<"a">>
      [] kind = "otherfield" -> <<"a">>
      [] kind = "twice" -> <<"a", "b", "a">>
      [] kind = "init" -> <<"a">>
      [] kind = "nested" -> <<"B instance">>

\* Token sequences: up to MaxLen of these words, a space after each
ParseWords == {<<"(">>, <<")">>, <<";">>, <<"1">>, <<"p", "r", "i", "n", "t">>, <<"v", "a", "r">>}

RECURSIVE JoinWords(_)
JoinWords(ws) == IF ws = <<>> THEN <<>> ELSE Head(ws) \o <<" ">> \o JoinWords(Tail(ws))

ParseTexts == {JoinWords(ws) : ws \in UNION {[1..n -> ParseWords] : n \in 1..MaxLen}}

\* A declaration `fun f(a,a,..,a) {` and a call `f(1,1,..,1)` with n entries,
\* the 256th entry being written z and 2; both texts end before the statement
\* does
ListKinds == {"parameters", "arguments"}

ListLens == {1, 2, MaxParams - 1, MaxParams, MaxParams + 1, MaxParams + 2}

ListCases == [kind : ListKinds, n : ListLens]

ListEntry(kind, i) ==
    IF kind = "parameters" THEN (IF i = MaxParams + 1 THEN "z" ELSE "a")
    ELSE (IF i = MaxArguments + 1 THEN "2" ELSE "1")

ListSrc(c) ==
    (IF c.kind = "parameters" THEN <<"f", "u", "n", " ", "f", "(">> ELSE <<"f", "(">>)
        \o [i \in 1..(2 * c.n - 1) |->
                IF i % 2 = 0 THEN "," ELSE ListEntry(c.kind, (i + 1) \div 2)]
        \o (IF c.kind = "parameters" THEN <<")", " ", "{">> ELSE <<")">>)

\* `this` and `super` under up to two declarations, each a function (F), a
\* method of a class without superclass (C) or a method of a subclass (S),
\* the outer one first; `before` is a class declared in the same body just
\* before the expression
ClassKindWrappers == {"F", "C", "S"}

ClassKindNestings ==
    {<<>>} \cup {<<a>> : a \in ClassKindWrappers}
        \cup {<<a, b>> : a \in ClassKindWrappers, b \in ClassKindWrappers}

ClassKindCases ==
    [nest : ClassKindNestings, before : {"none", "C", "S"}, keyword : {"this", "super"}]

ClassKindWrap(w, name, body) ==
    CASE w = "F" -> <<"f", "u", "n", " ">> \o name \o <<"(", ")", " ", "{", " ">> \o body \o <<" ", "}">>
      [] w = "C" -> <<"c", "l", "a", "s", "s", " ">> \o name \o <<" ", "{", " ", "m", "(", ")", " ", "{", " ">> \o body \o <<" ", "}", " ", "}">>
      [] w = "S" -> <<"c", "l", "a", "s", "s", " ">> \o name \o <<" ", "<", " ", "B", "a", "s", "e", " ", "{", " ", "m", "(", ")", " ", "{", " ">> \o body \o <<" ", "}", " ", "}">>

ClassKindInner(c) ==
    (CASE c.before = "none" -> <<>>
       [] c.before = "C" -> <<"c", "l", "a", "s", "s", " ", "K", " ", "{", " ", "n", "(", ")", " ", "{", " ", "}", " ", "}", " ">>
       [] c.before = "S" -> <<"c", "l", "a", "s", "s", " ", "K", " ", "<", " ", "B", "a", "s", "e", " ", "{", " ", "n", "(", ")", " ", "{", " ", "}", " ", "}", " ">>)
        \o (IF c.keyword = "this" THEN <<"p", "r", "i", "n", "t", " ", "t", "h", "i", "s", ";">> ELSE <<"s", "u", "p", "e", "r", ".", "m", "(", ")", ";">>)

ClassKindSrc(c) ==
    <<"c", "l", "a", "s", "s", " ", "B", "a", "s", "e", " ", "{", " ", "m", "(", ")", " ", "{", " ", "}", " ", "}", " ">> \o
    CASE Len(c.nest) = 0 -> ClassKindInner(c)
      [] Len(c.nest) = 1 -> ClassKindWrap(c.nest[1], <<"P">>, ClassKindInner(c))
      [] Len(c.nest) = 2 ->
            ClassKindWrap(c.nest[1], <<"P">>,
                          ClassKindWrap(c.nest[2], <<"Q">>, ClassKindInner(c)))

\* the class declarations around the expression, the outer one first
ClassesAround(c) == SelectSeq(c.nest, LAMBDA w : w /= "F")

\* `this` is inside some class; `super` is inside a class and the innermost
\* one has a superclass
ClassKindAccepted(c) ==
    /\ ClassesAround(c) /= <<>>
    /\ c.keyword = "super" => ClassesAround(c)[Len(ClassesAround(c))] = "S"

\* An assignment to x where no scope declares x: at top level, in a block
\* with another local, or in a function called from top level; x is a global
\* or is declared nowhere; the right-hand side is a literal or a call that
\* prints.  With `plain` the right-hand side stands alone, without `x =`.
AssignPlaces == {"top", "block", "function"}

AssignCases == [place : AssignPlaces, defined : BOOLEAN, rhs : {"literal", "call"}]

AssignStmt(c, plain) ==
    <<"p", "r", "i", "n", "t", " ">> \o (IF plain THEN <<>> ELSE <<"x", " ", "=", " ">>)
        \o (IF c.rhs = "call" THEN <<"t", "(", "2", ")">> ELSE <<"2">>) \o <<";">>

AssignText(c, plain) ==
    <<"f", "u", "n", " ", "t", "(", "v", ")", " ", "{", " ", "p", "r", "i", "n", "t", " ", "v", ";", " ", "r", "e", "t", "u", "r", "n", " ", "v", ";", " ", "}", " ">>
        \o (IF c.defined THEN <<"v", "a", "r", " ", "x", " ", "=", " ", "1", ";", " ">> ELSE <<>>)
        \o (CASE c.place = "top" -> AssignStmt(c, plain)
              [] c.place = "block" -> <<"{", " ", "v", "a", "r", " ", "y", " ", "=", " ", "0", ";", " ">> \o AssignStmt(c, plain) \o <<" ", "}">>
              [] c.place = "function" ->
                    <<"f", "u", "n", " ", "f", "(", "y", ")", " ", "{", " ">> \o AssignStmt(c, plain) \o <<" ", "}", " ", "f", "(", "0", ")", ";">>)
        \o (IF c.defined THEN <<" ", "p", "r", "i", "n", "t", " ", "x", ";">> ELSE <<>>)

AssignSrc(c) == AssignText(c, FALSE)

\* Scripts with characters beyond ASCII: in an identifier after its first
\* character and as its first character, where a letter starts an identifier
\* and a digit or a space of Unicode is an unexpected character; and with
\* the characters of ASCII that are written by their code points
UnicodeKinds ==
    {"inside", "first", "numeric", "digit", "space", "feed", "other", "micro",
     "backquote", "control", "delete"}

UnicodeSrc(kind) ==
    CASE kind = "inside" ->
            <<"v", "a", "r", " ", "c", "a", "f">> \o <<"U+00E9">> \o <<" ", "=", " ", "1", ";", " ", "p", "r", "i", "n", "t", " ", "c", "a", "f">> \o <<"U+00E9", ";">>
      [] kind = "first" ->
            <<"v", "a", "r", " ">> \o <<"U+03BB", "U+4E2D">> \o <<" ", "=", " ", "2", ";", " ", "p", "r", "i", "n", "t", " ">> \o <<"U+03BB", "U+4E2D", ";">>
      [] kind = "numeric" ->
            <<"v", "a", "r", " ", "x">> \o <<"U+00B2", "U+0663", "U+00BD">> \o <<" ", "=", " ", "3", ";", " ", "p", "r", "i", "n", "t", " ", "x">>
                \o <<"U+00B2", "U+0663", "U+00BD", ";">>
      [] kind = "digit" -> <<"p", "r", "i", "n", "t", " ">> \o <<"U+0663", ";">>
      [] kind = "space" -> <<"p", "r", "i", "n", "t">> \o <<"U+00A0">> \o <<"4", ";">>
      [] kind = "feed" -> <<"p", "r", "i", "n", "t", " ", "5", ";">> \o <<"\f">>
      [] kind = "other" -> <<"p", "r", "i", "n", "t", " ">> \o <<"U+20AC">> \o <<"6", ";">>
      [] kind = "micro" ->
            <<"v", "a", "r", " ">> \o <<"U+00B5">> \o <<"s", " ", "=", " ", "7", ";", " ", "p", "r", "i", "n", "t", " ">> \o <<"U+00B5", "s", ";">>
      [] kind = "backquote" -> <<"p", "r", "i", "n", "t", " ">> \o <<"U+0060">> \o <<"8", ";">>
      [] kind = "control" -> <<"p", "r", "i", "n", "t", " ", "x">> \o <<"U+0001">> \o <<";">>
      [] kind = "delete" -> <<"p", "r", "i", "n", "t", " ">> \o <<"U+007F">> \o <<"9", ";">>

\* what the script prints, and the character the scanner reports, if any
UnicodeExpected(kind) ==
    CASE kind = "inside" -> [out |-> <<"1">>, unexpected |-> ""]
      [] kind = "first" -> [out |-> <<"2">>, unexpected |-> ""]
      [] kind = "numeric" -> [out |-> <<"3">>, unexpected |-> ""]
      [] kind = "digit" -> [out |-> <<>>, unexpected |-> "U+0663"]
      [] kind = "space" -> [out |-> <<>>, unexpected |-> "U+00A0"]
      [] kind = "feed" -> [out |-> <<>>, unexpected |-> "\f"]
      [] kind = "other" -> [out |-> <<>>, unexpected |-> "U+20AC"]
      [] kind = "micro" -> [out |-> <<"7">>, unexpected |-> ""]
      [] kind = "backquote" -> [out |-> <<>>, unexpected |-> "U+0060"]
      [] kind = "control" -> [out |-> <<>>, unexpected |-> "U+0001"]
      [] kind = "delete" -> [out |-> <<>>, unexpected |-> "U+007F"]

\* Arithmetic on f64, `print e;` for each e with what it prints: fractions,
\* division by zero, NaN, the negative zero, sums that are not exact, an
\* integer beyond isize and one beyond the 53 binary digits
ArithCases ==
    {[src |-> <<"1", ".", "5">>, shown |-> "1.5"],
     [src |-> <<"-", "0", ".", "5">>, shown |-> "-0.5"],
     [src |-> <<"-", "1", ".", "5">>, shown |-> "-1.5"],
     [src |-> <<"1", ".", "5", "0">>, shown |-> "1.5"],
     [src |-> <<"2", ".", "0">>, shown |-> "2"],
     [src |-> <<"-", "0">>, shown |-> "0"],
     [src |-> <<"0", ".", "5", " ", "+", " ", "0", ".", "5">>, shown |-> "1"],
     [src |-> <<"-", "0", ".", "5", " ", "+", " ", "1">>, shown |-> "0.5"],
     [src |-> <<"1", ".", "5", " ", "-", " ", "0", ".", "5">>, shown |-> "1"],
     [src |-> <<"1", " ", "-", " ", "0", ".", "5">>, shown |-> "0.5"],
     [src |-> <<"0", ".", "5", " ", "*", " ", "2">>, shown |-> "1"],
     [src |-> <<"1", ".", "5", " ", "*", " ", "1", ".", "5">>, shown |-> "2.25"],
     [src |-> <<"1", " ", "/", " ", "0">>, shown |-> "inf"],
     [src |-> <<"-", "1", " ", "/", " ", "0">>, shown |-> "-inf"],
     [src |-> <<"0", " ", "/", " ", "0">>, shown |-> "NaN"],
     [src |-> <<"-", "(", "0", " ", "/", " ", "0", ")">>, shown |-> "NaN"],
     [src |-> <<"1", " ", "/", " ", "0", " ", "-", " ", "1", " ", "/", " ", "0">>, shown |-> "NaN"],
     [src |-> <<"0", " ", "*", " ", "(", "1", " ", "/", " ", "0", ")">>, shown |-> "NaN"],
     [src |-> <<"1", " ", "/", " ", "(", "-", "1", " ", "/", " ", "0", ")">>, shown |-> "0"],
     [src |-> <<"-", "7", " ", "/", " ", "2">>, shown |-> "-3.5"],
     [src |-> <<"7", " ", "/", " ", "2">>, shown |-> "3.5"],
     [src |-> <<"6", " ", "/", " ", "3">>, shown |-> "2"],
     [src |-> <<"1", " ", "/", " ", "0", ".", "5">>, shown |-> "2"],
     [src |-> <<"1", " ", "/", " ", "3">>, shown |-> "0.3333333333333333"],
     [src |-> <<"2", " ", "/", " ", "3">>, shown |-> "0.6666666666666666"],
     [src |-> <<"1", " ", "/", " ", "3", " ", "*", " ", "3">>, shown |-> "1"],
     [src |-> <<"0", ".", "1", " ", "+", " ", "0", ".", "2">>, shown |-> "0.30000000000000004"],
     [src |-> <<"0", ".", "1", " ", "*", " ", "3">>, shown |-> "0.30000000000000004"],
     [src |-> <<"1", " ", "/", " ", "1", "0", "2", "4", " ", "/", " ", "1", "0", "2", "4">>, shown |-> "0.00000095367431640625"],
     [src |-> <<"6", "5", "5", "3", "6", " ", "*", " ", "6", "5", "5", "3", "6">>, shown |-> "4294967296"],
     [src |-> <<"1", "0", "7", "3", "7", "4", "1", "8", "2", "3", " ", "+", " ", "1">>, shown |-> "1073741824"],
     [src |-> <<"9", "0", "0", "7", "1", "9", "9", "2", "5", "4", "7", "4", "0", "9", "9", "3">>, shown |-> "9007199254740992"],
     [src |-> <<"1", "0", "0", "0", "0", "0", "0", "0", "0", "0", "0", "0", "0", "0", "0", "0", "0", "0", "0", "0", "0">>, shown |-> "9223372036854775807"],
     [src |-> <<"-", "1", "0", "0", "0", "0", "0", "0", "0", "0", "0", "0", "0", "0", "0", "0", "0", "0", "0", "0", "0", "0">>, shown |-> "-9223372036854775808"],
     [src |-> <<"1", ".", "5", " ", "=", "=", " ", "1", ".", "7">>, shown |-> "false"],
     [src |-> <<"0", ".", "5", " ", "=", "=", " ", "-", "0", ".", "5">>, shown |-> "false"],
     [src |-> <<"0", " ", "=", "=", " ", "-", "0">>, shown |-> "true"],
     [src |-> <<"0", ".", "1", " ", "+", " ", "0", ".", "2", " ", "=", "=", " ", "0", ".", "3">>, shown |-> "false"],
     [src |-> <<"0", " ", "/", " ", "0", " ", "=", "=", " ", "0", " ", "/", " ", "0">>, shown |-> "false"],
     [src |-> <<"0", " ", "/", " ", "0", " ", "!", "=", " ", "0", " ", "/", " ", "0">>, shown |-> "true"],
     [src |-> <<"1", ".", "5", " ", "<", " ", "1", ".", "7">>, shown |-> "true"],
     [src |-> <<"1", ".", "7", " ", ">", " ", "1", ".", "5">>, shown |-> "true"],
     [src |-> <<"-", "0", ".", "5", " ", "<", " ", "0", ".", "5">>, shown |-> "true"],
     [src |-> <<"0", ".", "5", " ", ">", " ", "0", ".", "5">>, shown |-> "false"],
     [src |-> <<"0", " ", "/", " ", "0", " ", "<", " ", "1">>, shown |-> "false"],
     [src |-> <<"0", " ", "/", " ", "0", " ", ">", "=", " ", "1">>, shown |-> "false"],
     [src |-> <<"1", " ", "/", " ", "0", " ", ">", " ", "1", "0", "0", "0", "0", "0", "0", "0", "0", "0", "0", "0", "0", "0", "0", "0", "0", "0", "0", "0", "0">>, shown |-> "true"]}

ArithSrc(c) == <<"p", "r", "i", "n", "t", " ">> \o c.src \o <<";">>

\* The system clock, read by `clock`:
\*   print:  print clock();
\*   twice:  var a = clock(); var b = clock(); print a <= b; print b - a;
\*   name:   print clock;
ClockKinds == {"print", "twice", "name"}

ClockSrc(kind) ==
    CASE kind = "print" -> <<"p", "r", "i", "n", "t", " ", "c", "l", "o", "c", "k", "(", ")", ";">>
      [] kind = "twice" -> <<"v", "a", "r", " ", "a", " ", "=", " ", "c", "l", "o", "c", "k", "(", ")", ";", " ", "v", "a", "r", " ", "b", " ", "=", " ", "c", "l", "o", "c", "k", "(", ")", ";", " ", "p", "r", "i", "n", "t", " ", "a", " ", "<", "=", " ", "b", ";", " ", "p", "r", "i", "n", "t", " ", "b", " ", "-", " ", "a", ";">>
      [] kind = "name" -> <<"p", "r", "i", "n", "t", " ", "c", "l", "o", "c", "k", ";">>

Scripts ==
    {ScopeSrc(c) : c \in ScopeCases} \cup {ClosureSrc(c) : c \in ClosureCases}
        \cup {CounterSrc(n) : n \in 1..MaxCalls} \cup {SharedFrameSrc}
        \cup {ReturnSrc(c) : c \in ReturnCases} \cup TopReturnSrcs \cup InnerReturnSrcs
        \cup {InitSrc(c) : c \in InitCases} \cup {InitReturnSrc(c) : c \in InitReturnCases}
        \cup MixedSrcs
        \cup {UnicodeSrc(kind) : kind \in UnicodeKinds}
        \cup {ArithSrc(c) : c \in ArithCases}
        \cup {ClockSrc(kind) : kind \in ClockKinds}
        \cup {AssignSrc(c) : c \in AssignCases}
        \cup {ClassKindSrc(c) : c \in ClassKindCases}
        \cup {ListSrc(c) : c \in ListCases}
        \cup ParseTexts
        \cup {BindSrc(kind) : kind \in BindKinds}
        \cup {GetSrc(kind) : kind \in GetKinds}
        \cup {LogicalSrc(c) : c \in LogicalCases}
        \cup {CouplingSrc(kind) : kind \in CouplingKinds}
        \cup {DepthSrc(kind) : kind \in DepthKinds}
        \cup ScanTexts
        \cup {ForSrc(kind) : kind \in ForKinds} \cup {WhileSrc(kind) : kind \in ForKinds}
        \cup {CallSrc(kind) : kind \in CallKinds}
        \cup {RedeclareSrc(c) : c \in RedeclareCases}
        \cup {SelfInitSrc(c) : c \in SelfInitCases}
        \cup {CmpSrc(c) : c \in CmpCases}
        \cup {EqSrc(c) : c \in EqCases}
        \cup {HandleSrc(c) : c \in HandleCases}

\* The lines of a session: a global is defined, read and assigned; one line
\* fails in each stage (the runtime error strikes in a call in a block, after
\* the line has defined the global b)
LineVarA == <<"v", "a", "r", " ", "a", " ", "=", " ", "1", ";">>

LinePrintA == <<"p", "r", "i", "n", "t", " ", "a", ";">>

LineIncrA == <<"a", " ", "=", " ", "a", " ", "+", " ", "1", ";">>

LineRuntimeError == <<"v", "a", "r", " ", "b", " ", "=", " ", "2", ";", " ", "{", " ", "v", "a", "r", " ", "c", " ", "=", " ", "3", ";", " ", "f", "u", "n", " ", "f", "(", ")", " ", "{", " ", "r", "e", "t", "u", "r", "n", " ", "n", "o", "p", "e", ";", " ", "}", " ", "f", "(", ")", ";", " ", "}">>

LineScanError == <<"v", "a", "r", " ", "c", " ", "=", " ", "1", ";", " ", "@">>

LineParseError == <<"v", "a", "r", " ", "d", " ", "=", " ", ";", " ", "p", "r", "i", "n", "t", " ", "a", ";">>

LineResolverError == <<"v", "a", "r", " ", "e", " ", "=", " ", "5", ";", " ", "r", "e", "t", "u", "r", "n", ";">>

LineThis == <<"c", "l", "a", "s", "s", " ", "A", " ", "{", " ", "m", "(", ")", " ", "{", " ", "r", "e", "t", "u", "r", "n", " ", "t", "h", "i", "s", ";", " ", "}", " ", "}", " ", "c", "l", "a", "s", "s", " ", "B", " ", "<", " ", "A", " ", "{", " ", "n", "(", ")", " ", "{", " ", "r", "e", "t", "u", "r", "n", " ", "s", "u", "p", "e", "r", ".", "m", "(", ")", ";", " ", "}", " ", "}", " ", "p", "r", "i", "n", "t", " ", "B", "(", ")", ".", "n", "(", ")", ";">>

Lines ==
    {<<>>, LineVarA, LinePrintA, LineIncrA, LineRuntimeError, LineScanError,
     LineParseError, LineResolverError, LineThis}

\* Block bodies that end normally, with a runtime error and with a `return`,
\* at the top of the block and under nested statements
BlockBodySrcs ==
    {<<"p", "r", "i", "n", "t", " ", "1", ";">>,
     <<"p", "r", "i", "n", "t", " ", "n", "i", "l", " ", "+", " ", "1", ";">>,
     <<"r", "e", "t", "u", "r", "n", " ", "2", ";">>,
     <<"{", " ", "{", " ", "r", "e", "t", "u", "r", "n", " ", "3", ";", " ", "}", " ", "}">>,
     <<"{", " ", "n", "i", "l", "(", ")", ";", " ", "}">>,
     <<"{", " ", "c", "l", "o", "c", "k", "(", "1", ")", ";", " ", "p", "r", "i", "n", "t", " ", "1", ";", " ", "}">>,
     <<"w", "h", "i", "l", "e", " ", "(", "t", "r", "u", "e", ")", " ", "{", " ", "i", "f", " ", "(", "t", "r", "u", "e", ")", " ", "{", " ", "r", "e", "t", "u", "r", "n", ";", " ", "}", " ", "}">>}

BlockBodies == {parse(scan_tokens(s).tokens, 0).stmts : s \in BlockBodySrcs}

-----------------------------------------------------------------------------
(* Scanner of the bytecode front end (src/clox/src/scanner.rs) *)

\* Scanner::new: `pos` is the offset of the character iter.next() returns
\* next; the texts of the model are ASCII, one byte per character
CloxScannerNew(s) == [src |-> s, pos |-> 0, line |-> 1, is_done |-> FALSE]

\* self.iter.peek()
CloxPeek(s) == IF s.pos < Len(s.src) THEN Some(s.src[s.pos + 1]) ELSE None

\* self.iter.peek_nth(1)
CloxPeekNth1(s) == IF s.pos + 1 < Len(s.src) THEN Some(s.src[s.pos + 2]) ELSE None

\* self.iter.next() where a character is left
CloxAdvance(s) == [s EXCEPT !.pos = @ + 1]

\* Token::new
CloxToken(t_type, lex, line) == [t_type |-> t_type, lexeme |-> lex, line |-> line]

\* what a call of next returns: Some(Ok(token)), Some(Err(CompileError(msg)))
\* or None
CloxOk(token) == [k |-> "Ok", v |-> token]

CloxErr(msg) == [k |-> "Err", v |-> msg]

CloxNone == [k |-> "None", v |-> ""]

CloxIsNone(item) == item.k = "None"

\* a call that returned: the scanner afterwards and the item
CloxReturned(s, item) == [s |-> s, item |-> item, spins |-> FALSE]

\* match_c: options[1] with the two-character slice when c follows,
\* options[2] with the one-character slice otherwise
match_c(s, start, c, options) ==
    IF CloxPeek(s) = Some(c)
    THEN CloxReturned(CloxAdvance(s),
                      CloxOk(CloxToken(options[1], Slice(s.src, start, s.pos + 1), s.line)))
    ELSE CloxReturned(s, CloxOk(CloxToken(options[2], Slice(s.src, start, start + 1),
                                          s.line)))

RECURSIVE CloxCommentLoop(_)
\* skip_whitespace, the loop over a `//` comment: it consumes while the next
\* character is no newline, and ends only when no character is left; at a
\* newline it consumes nothing and goes round again
CloxCommentLoop(s) ==
    IF CloxPeek(s) = None THEN [s |-> s, spins |-> FALSE]
    ELSE IF Unwrap(CloxPeek(s)) /= "\n" THEN CloxCommentLoop(CloxAdvance(s))
    ELSE [s |-> s, spins |-> TRUE]

RECURSIVE skip_whitespace(_)
\* skip_whitespace: the scanner at the first character of a token, or
\* `spins` when the comment loop never ends
skip_whitespace(s) ==
    IF CloxPeek(s) = None THEN [s |-> s, spins |-> FALSE]
    ELSE Let(Unwrap(CloxPeek(s)), LAMBDA c :
         CASE c = "\n" -> skip_whitespace([CloxAdvance(s) EXCEPT !.line = @ + 1])
           [] c = "/" ->
                IF CloxPeekNth1(s) = None THEN [s |-> s, spins |-> FALSE]
                ELSE IF Unwrap(CloxPeekNth1(s)) = "/"
                     THEN Let(CloxCommentLoop(s), LAMBDA t :
                          IF t.spins THEN t ELSE skip_whitespace(t.s))
                     ELSE [s |-> s, spins |-> FALSE]
           [] OTHER ->
                IF IsWhitespace(c) THEN skip_whitespace(CloxAdvance(s))
                ELSE [s |-> s, spins |-> FALSE])

RECURSIVE CloxStringLoop(_)
\* string, the loop up to the closing quote or the end of the text
CloxStringLoop(s) ==
    IF CloxPeek(s) /= None /\ Unwrap(CloxPeek(s)) /= "\""
    THEN CloxStringLoop([CloxAdvance(s) EXCEPT
                            !.line = IF Unwrap(CloxPeek(s)) = "\n" THEN @ + 1 ELSE @])
    ELSE s

\* string: the token from the opening to the closing quote, on the line of
\* the closing quote
CloxString(s, start) ==
    Let(CloxStringLoop(s), LAMBDA t :
    IF CloxPeek(t) = None THEN CloxReturned(t, CloxErr("Unterminated String."))
    ELSE CloxReturned(CloxAdvance(t),
                      CloxOk(CloxToken("String", Slice(t.src, start, t.pos + 1), t.line))))

RECURSIVE CloxDigits(_)
\* while self.iter.next_if(|(_, c)| c.is_ascii_digit()).is_some() {}
CloxDigits(s) ==
    IF CloxPeek(s) /= None /\ IsAsciiDigit(Unwrap(CloxPeek(s)))
    THEN CloxDigits(CloxAdvance(s)) ELSE s

CloxNumberToken(s, start, to) ==
    CloxReturned(s, CloxOk(CloxToken("Number", Slice(s.src, start, to), s.line)))

\* number: digits, and a `.` with the digits after it when a digit follows
CloxNumber(s, start) ==
    Let(CloxDigits(s), LAMBDA t :
    IF CloxPeek(t) = None THEN CloxNumberToken(t, start, Len(t.src))
    ELSE IF Unwrap(CloxPeek(t)) /= "." THEN CloxNumberToken(t, start, t.pos)
    ELSE IF CloxPeekNth1(t) = None THEN CloxNumberToken(t, start, t.pos)
    ELSE IF IsAsciiDigit(Unwrap(CloxPeekNth1(t)))
         THEN Let(CloxDigits(CloxAdvance(t)), LAMBDA u :
              IF CloxPeek(u) /= None THEN CloxNumberToken(u, start, u.pos)
              ELSE CloxNumberToken(u, start, Len(u.src)))
         ELSE CloxNumberToken(t, start, t.pos))

\* check_keyword of the bytecode scanner
CloxCheckKeyword(lex, s, tt) == IF lex = s THEN tt ELSE "Identifier"

\* &lexeme[n..]
CloxFrom(lex, n) == SubSeq(lex, n + 1, Len(lex))

\* identifier_type: the keyword is chosen by the first character, for `f`
\* and `t` by the second, and the rest is compared
identifier_type(lex) ==
    CASE lex[1] = "a" -> CloxCheckKeyword(CloxFrom(lex, 1), <<"n", "d">>, "And")
      [] lex[1] = "c" -> CloxCheckKeyword(CloxFrom(lex, 1), <<"l", "a", "s", "s">>, "Class")
      [] lex[1] = "e" -> CloxCheckKeyword(CloxFrom(lex, 1), <<"l", "s", "e">>, "Else")
      [] lex[1] = "f" ->
            IF Len(lex) < 2 THEN "Identifier"
            ELSE CASE lex[2] = "a" ->
                        CloxCheckKeyword(CloxFrom(lex, 2), <<"l", "s", "e">>, "False")
                   [] lex[2] = "o" -> CloxCheckKeyword(CloxFrom(lex, 2), <<"r">>, "For")
                   [] lex[2] = "u" -> CloxCheckKeyword(CloxFrom(lex, 2), <<"n">>, "Fun")
                   [] OTHER -> "Identifier"
      [] lex[1] = "i" -> CloxCheckKeyword(CloxFrom(lex, 1), <<"f">>, "If")
      [] lex[1] = "n" -> CloxCheckKeyword(CloxFrom(lex, 1), <<"i", "l">>, "Nil")
      [] lex[1] = "o" -> CloxCheckKeyword(CloxFrom(lex, 1), <<"r">>, "Or")
      [] lex[1] = "p" -> CloxCheckKeyword(CloxFrom(lex, 1), <<"r", "i", "n", "t">>, "Print")
      [] lex[1] = "r" -> CloxCheckKeyword(CloxFrom(lex, 1), <<"e", "t", "u", "r", "n">>, "Return")
      [] lex[1] = "s" -> CloxCheckKeyword(CloxFrom(lex, 1), <<"u", "p", "e", "r">>, "Super")
      [] lex[1] = "t" ->
            IF Len(lex) < 2 THEN "Identifier"
            ELSE CASE lex[2] = "h" ->
                        CloxCheckKeyword(CloxFrom(lex, 2), <<"i", "s">>, "This")
                   [] lex[2] = "r" -> CloxCheckKeyword(CloxFrom(lex, 2), <<"u", "e">>, "True")
                   [] OTHER -> "Identifier"
      [] lex[1] = "v" -> CloxCheckKeyword(CloxFrom(lex, 1), <<"a", "r">>, "Var")
      [] lex[1] = "w" -> CloxCheckKeyword(CloxFrom(lex, 1), <<"h", "i", "l", "e">>, "While")
      [] OTHER -> "Identifier"

RECURSIVE CloxIdentifierLoop(_)
\* while next_if(|(_, c)| c.is_ascii_alphanumeric() || *c == '_').is_some() {}
CloxIdentifierLoop(s) ==
    IF CloxPeek(s) /= None
            /\ (IsAsciiAlphanumeric(Unwrap(CloxPeek(s))) \/ Unwrap(CloxPeek(s)) = "_")
    THEN CloxIdentifierLoop(CloxAdvance(s)) ELSE s

\* identifier: the slice up to the first character that is no letter, digit
\* or `_`, or up to the end of the text
CloxIdentifier(s, start) ==
    Let(CloxIdentifierLoop(s), LAMBDA t :
    CloxReturned(t, CloxOk(CloxToken(identifier_type(SubSeq(t.src, start + 1, t.pos)),
                                     Slice(t.src, start, t.pos), t.line))))

\* the arms of next for one character
CloxSingle ==
    [c \in {"(", ")", "{", "}", ";", ",", ".", "-", "+", "/", "*"} |->
        CASE c = "(" -> "LeftParen" [] c = ")" -> "RightParen"
          [] c = "{" -> "LeftBrace" [] c = "}" -> "RightBrace"
          [] c = ";" -> "Semicolon" [] c = "," -> "Comma" [] c = "." -> "Dot"
          [] c = "-" -> "Minus" [] c = "+" -> "Plus" [] c = "/" -> "Slash"
          [] c = "*" -> "Star"]

\* the arms of next that call match_c with '='
CloxDouble ==
    [c \in {"!", "=", "<", ">"} |->
        CASE c = "!" -> <<"BangEqual", "Bang">> [] c = "=" -> <<"EqualEqual", "Equal">>
          [] c = "<" -> <<"LessEqual", "Less">> [] c = ">" -> <<"GreaterEqual", "Greater">>]

\* Iterator::next, the match on the character c taken at offset start
CloxMatch(s, start, c) ==
    CASE IsAsciiAlphabetic(c) -> CloxIdentifier(s, start)
      [] IsAsciiDigit(c) -> CloxNumber(s, start)
      [] c \in DOMAIN CloxSingle ->
            CloxReturned(s, CloxOk(CloxToken(CloxSingle[c], Slice(s.src, start, start + 1),
                                             s.line)))
      [] c \in DOMAIN CloxDouble -> match_c(s, start, "=", CloxDouble[c])
      [] c = "\"" -> CloxString(s, start)
      [] OTHER ->
            CloxReturned([s EXCEPT !.is_done = TRUE],
                         CloxErr("Unexpected character: " \o c \o "."))

\* Iterator::next: None once is_done; else the white space is skipped and
\* the next token, the Eof token at the end of the text (which sets is_done)
\* or an error is returned.  `spins`: the call never returns.
CloxNext(s) ==
    IF s.is_done THEN CloxReturned(s, CloxNone)
    ELSE Let(skip_whitespace(s), LAMBDA w :
         IF w.spins THEN [s |-> w.s, item |-> CloxNone, spins |-> TRUE]
         ELSE IF CloxPeek(w.s) = None
              THEN CloxReturned([w.s EXCEPT !.is_done = TRUE],
                                CloxOk(CloxToken("Eof",
                                                 Slice(w.s.src, Len(w.s.src), Len(w.s.src)),
                                                 w.s.line)))
              ELSE CloxMatch(CloxAdvance(w.s), w.s.pos, Unwrap(CloxPeek(w.s))))

\* the scanner before the bytecode front end is started
CloxOff == CloxScannerNew(<<>>)

-----------------------------------------------------------------------------
(* The process: main dispatches to run_file or run_prompt (src/jlox/src/main.rs) *)

\* a time of the system clock: sec seconds and nsec nanoseconds from the
\* epoch on, sec (a natural number of any size) before the epoch when neg
SystemTimeAt(neg, sec, nsec) == [neg |-> neg, sec |-> sec, nsec |-> nsec]

\* SystemTime::now() is any time the system clock can stand at: tv_sec in
\* the 64-bit integers, tv_nsec below a second
SystemTimes ==
    {t \in [neg : BOOLEAN, sec : Seq(0..(Limb - 1)), nsec : 0..999999999] :
        /\ t.sec = BigTrim(t.sec)
        /\ t.neg => t.sec /= <<>>
        /\ BigLess(t.sec, BigShl(<<1>>, 63)) \/ (t.neg /\ t.sec = BigShl(<<1>>, 63))}

\* The times the runs of the model read: 5 s and half a second before the
\* epoch, the epoch, 1793340585.694 s, 1793358155.918000001 s and
\* 4102444800.000999999 s after it
ClockSample ==
    {SystemTimeAt(TRUE, <<5>>, 0),
     SystemTimeAt(TRUE, <<1>>, 500000000),
     SystemTimeAt(FALSE, <<>>, 0),
     SystemTimeAt(FALSE, BigFromInt(1793340585), 694000000),
     SystemTimeAt(FALSE, BigFromInt(1793358155), 918000001),
     SystemTimeAt(FALSE, BigMulSmall(BigFromInt(410244480), 10), 999999)}

\* the text names the native function
NamesClock(source) ==
    \E i \in 1..(Len(source) - 4) : SubSeq(source, i, i + 4) = <<"c", "l", "o", "c", "k">>

\* what the system clock may read at the calls of `clock` during the run of
\* a text; a text that does not name `clock` cannot call it
ClockReadings(source) ==
    IF NamesClock(source) THEN [1..MaxClockCalls -> ClockSample] ELSE {<<>>}

\* the interpreter of the process, with the clock readings of the next run
Process(times) ==
    [interpreter |-> interpreter, envs |-> envs, fields |-> fields,
     next_id |-> NEXT_EXPR_ID, clock |-> times]

\* what Lox::run leaves behind; a panic or a stack overflow ends the process
Ran(source, o, next_pc) ==
    /\ o.result /= "Cutoff"
    /\ input' = source
    /\ interpreter' = o.interpreter
    /\ envs' = o.envs
    /\ fields' = o.fields
    /\ NEXT_EXPR_ID' = o.next_id
    /\ stages' = o.stages
    /\ result' = o.result
    /\ out' = o.out
    /\ reported' = o.reported
    /\ audit' = o.audit
    /\ pc' = IF o.result \in {"Panic", "StackOverflow"} THEN "crashed" ELSE next_pc

\* the tree-walking interpreter's process before main dispatches
LoxInit ==
    /\ pc = "main"
    /\ interpreter = InterpreterNew
    /\ envs = GlobalsNew
    /\ fields = <<>>
    /\ NEXT_EXPR_ID = 0
    /\ input = <<>>
    /\ stages = <<>>
    /\ result = "None"
    /\ out = <<>>
    /\ reported = <<>>
    /\ nInputs = 0
    /\ audit = NoAudit

Init ==
    /\ LoxInit
    /\ clox_pc = "off"
    /\ scanner = CloxOff
    /\ yielded = <<>>

\* Lox::run_file: fs::read_to_string gives the text of the file or fails (no
\* such file, a directory, bytes that are not UTF-8), and the expect on it
\* panics before an interpreter is made; `read` is None for the failure
RunFile(read, times) ==
    /\ pc = "main"
    /\ IF IsSome(read)
       THEN Ran(Unwrap(read), LoxRun(Unwrap(read), Process(times)), "exit")
       ELSE /\ pc' = "crashed"
            /\ UNCHANGED <<interpreter, envs, fields, NEXT_EXPR_ID, input, stages,
                           result, out, reported, audit>>
    /\ UNCHANGED nInputs
    /\ UNCHANGED cloxVars

\* run_prompt that makes a new interpreter for every line
RunPromptNewInterpreter(line, times) ==
    /\ pc \in {"main", "repl"}
    /\ nInputs < MaxInputs
    /\ nInputs' = nInputs + 1
    /\ UNCHANGED cloxVars
    /\ IF line = <<>>
       THEN /\ pc' = "repl"
            /\ input' = line
            /\ stages' = <<>>
            /\ result' = "None"
            /\ out' = <<>>
            /\ reported' = <<>>
            /\ audit' = NoAudit
            /\ UNCHANGED <<interpreter, envs, fields, NEXT_EXPR_ID>>
       ELSE Ran(line, LoxRun(line, [interpreter |-> InterpreterNew, envs |-> GlobalsNew,
                                    fields |-> <<>>, next_id |-> NEXT_EXPR_ID,
                                    clock |-> times]),
                "repl")

\* one round of Lox::run_prompt's loop: an empty line is skipped, any other
\* line is run on the session's interpreter and its error, if any, reported
RunPrompt(line, times) ==
    /\ pc \in {"main", "repl"}
    /\ nInputs < MaxInputs
    /\ nInputs' = nInputs + 1
    /\ UNCHANGED cloxVars
    /\ IF line = <<>>
       THEN /\ pc' = "repl"
            /\ input' = line
            /\ stages' = <<>>
            /\ result' = "None"
            /\ out' = <<>>
            /\ reported' = <<>>
            /\ audit' = NoAudit
            /\ UNCHANGED <<interpreter, envs, fields, NEXT_EXPR_ID>>
       ELSE Ran(line, LoxRun(line, Process(times)), "repl")

\* run_prompt's `else { break; }`: the input has ended and so does the process
PromptEnd ==
    /\ pc \in {"main", "repl"}
    /\ pc' = "exit"
    /\ UNCHANGED <<interpreter, envs, fields, NEXT_EXPR_ID, input, stages, result, out,
                   reported, nInputs, audit>>
    /\ UNCHANGED cloxVars

Next ==
    \/ \E read \in {None} \cup {Some(source) : source \in Scripts} :
            \E times \in (IF IsSome(read) THEN ClockReadings(Unwrap(read)) ELSE {<<>>}) :
                RunFile(read, times)
    \/ \E line \in Lines : \E times \in ClockReadings(line) : RunPrompt(line, times)
    \/ PromptEnd

Spec == Init /\ [][Next]_vars

-----------------------------------------------------------------------------
(* The bytecode front end's scanner, iterated to its end and beyond *)

\* the text and the tokens of test::test_scanner
CloxTestSource ==
    <<"(", " ", ")", " ", "{", " ", "}", " ", ",", " ", ".", " ", "-", " ", "+", " ", ";", " ", "/", " ", "*", " ", "!", " ", "!", "=", " ", "=", " ", "=", "=", " ", ">", " ", ">", "=", " ", "<", " ", "<", "=", " ", "m", "y", "_", "v", "a", "r", " ", "\"", "s", "t", "r", "i", "n", "g", "\"", " ", "1", "2", "3", ".", "4", "5", "6", " ", "a", "n", "d", " ", "c", "l", "a", "s", "s", "\n", " ", " ", " ", " ", " ", " ", " ", " ", "e", "l", "s", "e", " ", "f", "a", "l", "s", "e", " ", "f", "u", "n", " ", "f", "o", "r", " ", "i", "f", " ", "n", "i", "l", " ", "o", "r", " ", "p", "r", "i", "n", "t", " ", "r", "e", "t", "u", "r", "n", " ", "s", "u", "p", "e", "r", " ", "t", "h", "i", "s", " ", "t", "r", "u", "e", " ", "v", "a", "r", " ", "w", "h", "i", "l", "e">>

CloxTestTokens ==
    <<CloxToken("LeftParen", "(", 1),
      CloxToken("RightParen", ")", 1),
      CloxToken("LeftBrace", "{", 1),
      CloxToken("RightBrace", "}", 1),
      CloxToken("Comma", ",", 1),
      CloxToken("Dot", ".", 1),
      CloxToken("Minus", "-", 1),
      CloxToken("Plus", "+", 1),
      CloxToken("Semicolon", ";", 1),
      CloxToken("Slash", "/", 1),
      CloxToken("Star", "*", 1),
      CloxToken("Bang", "!", 1),
      CloxToken("BangEqual", "!=", 1),
      CloxToken("Equal", "=", 1),
      CloxToken("EqualEqual", "==", 1),
      CloxToken("Greater", ">", 1),
      CloxToken("GreaterEqual", ">=", 1),
      CloxToken("Less", "<", 1),
      CloxToken("LessEqual", "<=", 1),
      CloxToken("Identifier", "my_var", 1),
      CloxToken("String", "\"string\"", 1),
      CloxToken("Number", "123.456", 1),
      CloxToken("And", "and", 1),
      CloxToken("Class", "class", 1),
      CloxToken("Else", "else", 2),
      CloxToken("False", "false", 2),
      CloxToken("Fun", "fun", 2),
      CloxToken("For", "for", 2),
      CloxToken("If", "if", 2),
      CloxToken("Nil", "nil", 2),
      CloxToken("Or", "or", 2),
      CloxToken("Print", "print", 2),
      CloxToken("Return", "return", 2),
      CloxToken("Super", "super", 2),
      CloxToken("This", "this", 2),
      CloxToken("True", "true", 2),
      CloxToken("Var", "var", 2),
      CloxToken("While", "while", 2),
      CloxToken("Eof", "", 2)>>

\* texts with the tokens the scanner is to yield for them, the Eof token
\* included
CloxProgram(src, tokens) == [src |-> src, tokens |-> tokens]

CloxPrograms ==
    {CloxProgram(CloxTestSource, CloxTestTokens),
     CloxProgram(<<"/", "/", " ", "c", "\n", "x", ";">>,
                 <<CloxToken("Identifier", "x", 2), CloxToken("Semicolon", ";", 2),
                   CloxToken("Eof", "", 2)>>),
     CloxProgram(<<"x", " ", "/", "/", " ", "c", "\n", "y">>,
                 <<CloxToken("Identifier", "x", 1), CloxToken("Identifier", "y", 2),
                   CloxToken("Eof", "", 2)>>),
     CloxProgram(<<"1", " ", "/", " ", "2", " ", "/", "/", " ", "c">>,
                 <<CloxToken("Number", "1", 1), CloxToken("Slash", "/", 1),
                   CloxToken("Number", "2", 1), CloxToken("Eof", "", 1)>>),
     CloxProgram(<<"f", " ", "f", "a", " ", "f", "o", " ", "t", " ", "t", "h", " ", "a", "n", " ", "a", "n", "d", "_", " ", "f", "o", "r", "1", " ", "I", "f">>,
                 <<CloxToken("Identifier", "f", 1), CloxToken("Identifier", "fa", 1),
                   CloxToken("Identifier", "fo", 1), CloxToken("Identifier", "t", 1),
                   CloxToken("Identifier", "th", 1), CloxToken("Identifier", "an", 1),
                   CloxToken("Identifier", "and_", 1), CloxToken("Identifier", "for1", 1),
                   CloxToken("Identifier", "If", 1), CloxToken("Eof", "", 1)>>),
     CloxProgram(<<"\"", "a", "\n", "b", "\"", " ", "c">>,
                 <<CloxToken("String", "\"a\nb\"", 2), CloxToken("Identifier", "c", 2),
                   CloxToken("Eof", "", 2)>>),
     CloxProgram(<<"1", ".", "5", ".", "x", " ", "1", "2", ".", " ", ".", "5", " ", "7">>,
                 <<CloxToken("Number", "1.5", 1), CloxToken("Dot", ".", 1),
                   CloxToken("Identifier", "x", 1), CloxToken("Number", "12", 1),
                   CloxToken("Dot", ".", 1), CloxToken("Dot", ".", 1),
                   CloxToken("Number", "5", 1), CloxToken("Number", "7", 1),
                   CloxToken("Eof", "", 1)>>),
     CloxProgram(<<"\f", "x", "U+000B", "U+00A0", "y", "\t", "U+2028", "\r", "U+3000", "z", "U+0085",
                   VerticalTab, "U+1680", "U+2009", "U+205F">>,
                 <<CloxToken("Identifier", "x", 1), CloxToken("Identifier", "y", 1),
                   CloxToken("Identifier", "z", 1), CloxToken("Eof", "", 1)>>)}

\* Texts with characters that are no white space and that the language does
\* not use (characters beyond ASCII, the backquote, control characters), and
\* the items next returns for them: the identifier ends before the
\* character, which is then unexpected
CloxRejected ==
    {[src |-> <<"x", c, "y">>,
      items |-> <<CloxOk(CloxToken("Identifier", "x", 1)),
                  CloxErr("Unexpected character: " \o c \o ".")>>] :
        c \in UnicodeAlphabetic \cup UnicodeNumeric \cup UnicodeOther
                \cup {"U+0060", "U+0000", "U+001F", "U+007F", "U+00B5", "U+200B"}}

CloxAlphabet == {"/", "\n", " ", "a", "1", ".", "\"", "=", "@"}

CloxTexts == UNION {[1..n -> CloxAlphabet] : n \in 0..MaxLen}

CloxSources == CloxTexts \cup {p.src : p \in CloxPrograms} \cup {p.src : p \in CloxRejected}

\* How many times next is called after it has returned None.
MaxAfterEnd == 2

\* Scanner::new(s) for a text s
ScannerInit ==
    /\ LoxInit
    /\ clox_pc = "iterating"
    /\ scanner \in {CloxScannerNew(s) : s \in CloxSources}
    /\ yielded = <<>>

\* one call of next on the scanner: the item it returns is appended to
\* `yielded`; a call that never returns leaves the process in it
ScannerNext ==
    /\ clox_pc = "iterating"
    /\ Len(SelectSeq(yielded, LAMBDA item : CloxIsNone(item))) < MaxAfterEnd
    /\ Let(CloxNext(scanner), LAMBDA r :
           /\ scanner' = r.s
           /\ clox_pc' = (IF r.spins THEN "spinning" ELSE "iterating")
           /\ yielded' = (IF r.spins THEN yielded ELSE Append(yielded, r.item)))
    /\ UNCHANGED loxVars

ScannerStep == ScannerNext

ScannerSpec == ScannerInit /\ [][ScannerStep]_vars

-----------------------------------------------------------------------------
(* Scope and closures *)

\* C1: wherever x is already bound to w (a global, an enclosing block, a
\* function parameter), the read of x right after `var x = v;` in a block
\* yields v, and after the block x yields w again.
C1_InnermostDeclarationWins ==
    \A c \in ScopeCases :
        input = ScopeSrc(c) => result = "Ok" /\ out = <<c.v.shown, c.w.shown>>

\* C2: a name in a function body is bound to the declaration visible where
\* the function is declared; a declaration of the name later in the block or
\* in an inner scope changes neither what the function reads nor what it
\* writes.
C2_LexicalScope ==
    \A c \in ClosureCases :
        input = ClosureSrc(c) => result = "Ok" /\ out = ClosureExpected(c)

\* the frame the global function `counter` closes over
CounterFrame == envs[envs[interpreter.globals].values["counter"].fn.closure]

\* C3: a function value shares the frame that was current at its
\* declaration: what one call writes to a captured variable the next call of
\* the same value reads, so the counter prints 1, 2, .., n and its frame
\* holds i = n; the block that declares a function reads what the function
\* wrote.
C3_ClosureSharesFrame ==
    /\ \A n \in 1..MaxCalls :
        input = CounterSrc(n) =>
            /\ result = "Ok"
            /\ out = CounterExpected(n)
            /\ CounterFrame.values["i"] = Number(n)
    /\ input = SharedFrameSrc => result = "Ok" /\ out = <<"2">>

C3_Witness == input = CounterSrc(MaxCalls) /\ Len(out) = MaxCalls /\ out[MaxCalls] = IntToString(MaxCalls)

\* the interpreter about to run a block in a fresh frame over frame e
BlockEntry(e) ==
    [globals |-> interpreter.globals, environment |-> e, locals |-> <<>>,
     envs |-> EnvironmentNew(envs, e), fields |-> fields, out |-> <<>>, steps |-> 0,
     audit |-> NoAudit, clock |-> <<>>]

\* execute_block returned: normally, with a runtime error or with a Return
Returned(x) == ~Failed(x) \/ Unwrap(x.ex).k \in {"Error", "Return"}

\* C4: when execute_block returns (normal end, runtime error, or `return`),
\* the current environment is the frame that was current before the call;
\* so after every run that came back, whatever the depth it failed at, the
\* current environment is the globals frame.
C4_BlockRestoresEnvironment ==
    /\ pc \in {"repl", "exit"} => interpreter.environment = interpreter.globals
    /\ \A e \in 1..Len(envs) : \A body \in BlockBodies :
        LET x == execute_block(BlockEntry(e), body, Len(envs) + 1) IN
        Returned(x) /\ x.st.environment = e

C4_Witness ==
    /\ input = RuntimeSrc
    /\ result = "Runtime"
    /\ Len(envs) > 3
    /\ interpreter.environment = interpreter.globals

\* C5: `return` ends the innermost active call from under any statements
\* around it; the call yields the returned value, nil for `return;` and for
\* a body without `return`; no statement after it runs, and the caller goes
\* on without an error.
C5_ReturnEndsInnermostCall ==
    \A c \in ReturnCases :
        input = ReturnSrc(c) =>
            result = "Ok" /\ out = ReturnExpected(c) /\ reported = <<>>

C5_Witness ==
    /\ input = ReturnSrc([kind |-> "2", v |-> [src |-> <<"1">>, shown |-> "1"]])
    /\ out = <<"in", "1", "after">>

\* C6: `return` outside every function is a resolver error and nothing of
\* the program runs, also after a function or a class whose body returns; a
\* function may return after a function or method inside it has ended.
C6_TopLevelReturnRejected ==
    /\ \A s \in TopReturnSrcs :
        input = s =>
            /\ result = "Resolver"
            /\ stages = <<"scan", "parse", "resolve">>
            /\ out = <<>>
            /\ envs = GlobalsNew
    /\ \A s \in InnerReturnSrcs : input = s => result = "Ok" /\ out = <<"1">>

C6_Witness == input = FunThenReturnSrc /\ result = "Resolver" /\ out = <<>>

-----------------------------------------------------------------------------
(* Classes *)

GlobalValue(name) == envs[interpreter.globals].values[name]

\* C7: calling a class yields a new instance of it after running `init`
\* (its own or an inherited one), also when `init` ends with `return;`;
\* `init` called on an instance yields that instance; any other method
\* yields what it returns, nil when it returns nothing.
C7_InitYieldsInstance ==
    \A c \in InitCases :
        input = InitSrc(c) =>
            /\ result = "Ok"
            /\ out = InitExpected(c)
            /\ c.kind \in {"plain", "bare", "direct", "early", "super"} =>
                    GlobalValue("a").t = "Instance"
            /\ c.kind \in {"direct", "early"} => GlobalValue("b") = GlobalValue("a")

C7_Witness ==
    /\ input = InitSrc([kind |-> "early", v |-> [src |-> <<"1">>, shown |-> "1"]])
    /\ result = "Ok"
    /\ GlobalValue("b").t = "Instance"

\* C8: `return <expr>;` in the body of a method named init, also under
\* statements of that body, is a resolver error and nothing runs; `return;`
\* there is accepted, and so is `return <expr>;` in any other method, in a
\* function declared inside init, and in a function named init.
C8_InitializerReturn ==
    \A c \in InitReturnCases :
        input = InitReturnSrc(c) =>
            IF c.kind \in {"value", "block"}
            THEN result = "Resolver" /\ out = <<>> /\ envs = GlobalsNew
            ELSE result = "Ok"
                 /\ out = <<IF c.kind = "bare" THEN "A instance" ELSE c.v.shown>>

C8_Witness ==
    /\ input = InitReturnSrc([kind |-> "block", v |-> [src |-> <<"1">>, shown |-> "1"]])
    /\ result = "Resolver"

-----------------------------------------------------------------------------
(* The pipeline and the session *)

\* the first stage of Lox::run that fails on the text, given the id counter
\* and the side table the run starts with; "None" when the text reaches the
\* interpreter, "StackOverflow" when the parser does not return but
\* overflows the stack of the process
FirstFailure(source, next_id, locals) ==
    LET sc == scan_tokens(source)
        pr == parse(sc.tokens, next_id)
    IN IF ~sc.ok THEN "Scanner"
       ELSE IF pr.overflow THEN "StackOverflow"
       ELSE IF ~pr.ok THEN "Parser"
       ELSE IF ~resolve_stmts(ResolverNew(locals), pr.stmts).ok THEN "Resolver"
       ELSE "None"

\* one run of Lox::run on the text input'
C9_Run ==
    LET failure == FirstFailure(input', NEXT_EXPR_ID, interpreter.locals) IN
    /\ failure = "Scanner" =>
            /\ result' = "Scanner" /\ stages' = <<"scan">> /\ out' = <<>>
            /\ NEXT_EXPR_ID' = NEXT_EXPR_ID
            /\ interpreter' = interpreter /\ envs' = envs /\ fields' = fields
    /\ failure = "Parser" =>
            /\ result' = "Parser" /\ stages' = <<"scan", "parse">> /\ out' = <<>>
            /\ interpreter' = interpreter /\ envs' = envs /\ fields' = fields
    /\ failure = "StackOverflow" =>
            /\ result' = "StackOverflow" /\ stages' = <<"scan", "parse">> /\ out' = <<>>
            /\ interpreter' = interpreter /\ envs' = envs /\ fields' = fields
            /\ reported' = <<>> /\ pc' = "crashed"
    /\ failure = "Resolver" =>
            /\ result' = "Resolver" /\ stages' = <<"scan", "parse", "resolve">>
            /\ out' = <<>>
            /\ interpreter'.environment = interpreter.environment
            /\ envs' = envs /\ fields' = fields
    /\ failure = "None" =>
            /\ result' \in {"Ok", "Runtime"} \/ (result' = "Panic" /\ NamesClock(input'))
            /\ stages' = <<"scan", "parse", "resolve", "interpret">>
    /\ \A i \in DOMAIN reported' : reported'[i] = result'
    /\ result' \notin {"Ok", "StackOverflow"} => reported' /= <<>>

\* C9: Lox::run scans, parses, resolves and interprets in this order and
\* stops at the first stage that fails: after a scan error nothing is
\* parsed, after a parse error nothing is resolved, after a resolver error
\* nothing is executed; the errors a run reports are all of one kind, the
\* kind of the stage that failed.  A parser that overflows the stack ends the
\* process there: nothing is resolved or executed and no error is reported;
\* the one panic of the interpret stage is that of `clock` on a system clock
\* before the epoch.
C9_StagesInOrder == [][input' /= <<>> => C9_Run]_vars

C9_Witness ==
    /\ input = ParseResolveRuntimeSrc
    /\ result = "Parser"
    /\ reported = <<"Parser">>
    /\ NEXT_EXPR_ID > 0

\* one round of run_prompt that goes on to the next line
C10_Round ==
    /\ interpreter'.globals = interpreter.globals
    /\ interpreter'.environment = interpreter'.globals
    /\ DOMAIN envs[interpreter.globals].values
            \subseteq DOMAIN envs'[interpreter.globals].values
    /\ result' \in {"Scanner", "Parser", "Resolver"} => envs' = envs
    /\ input' = LineRuntimeError =>
            /\ result' = "Runtime"
            /\ envs'[interpreter.globals].values["b"] = Number(2)
            /\ \A name \in DOMAIN envs[interpreter.globals].values \ {"b"} :
                envs'[interpreter.globals].values[name]
                    = envs[interpreter.globals].values[name]
    /\ input' = LinePrintA /\ "a" \in DOMAIN envs[interpreter.globals].values =>
            /\ result' = "Ok"
            /\ out' = <<Display(envs[interpreter.globals].values["a"])>>
    /\ input' = LineIncrA /\ "a" \in DOMAIN envs[interpreter.globals].values =>
            /\ result' = "Ok"
            /\ envs[interpreter.globals].values["a"].c = "int"
            /\ envs'[interpreter.globals].values["a"]
                    = Number(envs[interpreter.globals].values["a"].n + 1)

\* C10: a session runs every line on one interpreter: a global defined by an
\* earlier line is readable and assignable in every later line; a line that
\* fails in any stage takes no global away, keeps the bindings made before
\* the error, and leaves the globals frame as the current environment.
C10_SessionKeepsGlobals == [][pc' = "repl" => C10_Round]_vars

C10_Witness ==
    /\ pc = "repl"
    /\ input = LinePrintA
    /\ result = "Ok"
    /\ out = <<"1">>
    /\ "b" \in DOMAIN envs[interpreter.globals].values

-----------------------------------------------------------------------------
(* Values *)

\* C11: every handle of an instance (a second variable, an argument, `this`)
\* reads and writes the one field map of the instance: a field written
\* through one handle is read through every other; two instances made by
\* two calls of the class have two field maps.
C11_InstanceIdentity ==
    \A c \in HandleCases :
        input = HandleSrc(c) =>
            /\ result = "Ok"
            /\ out = HandleExpected(c)
            /\ c.kind = "alias" =>
                    /\ GlobalValue("a") = GlobalValue("b")
                    /\ fields[GlobalValue("a").fields]["f"] = Number(2)
            /\ c.kind = "separate" =>
                    /\ GlobalValue("a").fields /= GlobalValue("b").fields
                    /\ Display(fields[GlobalValue("a").fields]["f"]) = c.v.shown
                    /\ fields[GlobalValue("b").fields]["f"] = Number(2)

C11_Witness ==
    /\ input = HandleSrc([kind |-> "alias", v |-> [src |-> <<"1">>, shown |-> "1"]])
    /\ out = <<"1", "2">>
    /\ Len(fields) = 1

\* C12: for operands x, y of every variant (nil, boolean, number, string,
\* function, class, instance): x == x is true unless x is NaN, x == y and
\* y == x agree, x == y is false when the variants differ, and x != y is the
\* negation of x == y.
C12_EqualityLaws ==
    \A c \in EqCases :
        input = EqSrc(c) =>
            /\ result = "Ok"
            /\ Len(out) = 4
            /\ out[1] \in {"true", "false"}
            /\ out[2] = out[1]
            /\ c.x.variant /= c.y.variant => out[1] = "false"
            /\ out[3] = (IF out[1] = "true" THEN "false" ELSE "true")
            /\ ~c.x.nan => out[4] = "true"

\* C13: for numbers x and y, `x <= y` is true exactly when x is at most y
\* and `x >= y` exactly when x is at least y; when an operand is not a
\* number the comparison is a runtime error and prints nothing.
C13_Comparison ==
    \A c \in CmpCases :
        input = CmpSrc(c) =>
            IF c.x.number /\ c.y.number
            THEN /\ result = "Ok"
                 /\ out = <<IF (IF c.op = "<=" THEN AtMost(c.x, c.y) ELSE AtMost(c.y, c.x))
                            THEN "true" ELSE "false">>
            ELSE result = "Runtime" /\ out = <<>> /\ reported = <<"Runtime">>

C13_Witness ==
    /\ input = CmpSrc([op |-> "<=", x |-> CmpNumber(<<"0", ".", "5">>, 1),
                       y |-> CmpNumber(<<"1", "0">>, 20)])
    /\ out = <<"true">>

-----------------------------------------------------------------------------
(* Declarations *)

\* the message of the ResolverError the text ends with, "" when it resolves
ResolverMessage(source) ==
    Let(resolve_stmts(ResolverNew(<<>>), parse(scan_tokens(source).tokens, 0).stmts),
        LAMBDA x : IF x.ok THEN "" ELSE Unwrap(x.err).msg)

\* C14: in a block, a function body or a method body, `var n = e;` where e
\* reads n is the resolver error "Can't read local variable in its own
\* initializer.", also when an enclosing block or the globals bind n; the
\* run fails and nothing of the program runs.
C14_OwnInitializer ==
    \A c \in SelfInitCases :
        input = SelfInitSrc(c) =>
            /\ result = "Resolver"
            /\ ResolverMessage(input) = "Can't read local variable in its own initializer."
            /\ out = <<>>
            /\ envs = GlobalsNew

C14_Witness ==
    /\ input = SelfInitSrc([kind |-> "global", name |-> <<"x">>])
    /\ result = "Resolver"
    /\ stages = <<"scan", "parse", "resolve">>

\* the text of a name given as its characters
RECURSIVE Text(_)
Text(chars) == IF chars = <<>> THEN "" ELSE Head(chars) \o Text(Tail(chars))

\* C15: a name declared twice in one local scope (two `var` of a block or of
\* a function body, a repeated parameter, a parameter and a `var` of the
\* body) is the resolver error "Already a variable with this name in this
\* scope." and nothing runs; a global declared twice is accepted and the
\* second declaration replaces the binding.
C15_Redeclaration ==
    \A c \in RedeclareCases :
        input = RedeclareSrc(c) =>
            IF c.kind = "global"
            THEN /\ result = "Ok"
                 /\ out = <<"0", "2">>
                 /\ GlobalValue(Text(c.name)) = Number(2)
            ELSE /\ result = "Resolver"
                 /\ ResolverMessage(input)
                        = "Already a variable with this name in this scope."
                 /\ out = <<>>
                 /\ envs = GlobalsNew

C15_Witness ==
    /\ input = RedeclareSrc([kind |-> "param_var", name |-> <<"a", "b">>])
    /\ result = "Resolver"
    /\ reported = <<"Resolver">>

-----------------------------------------------------------------------------
(* Calls and loops *)

\* the message of the runtime error a script ends with on a fresh
\* interpreter, "" when it ends without one
RuntimeMessage(source) ==
    Let(parse(scan_tokens(source).tokens, 0).stmts, LAMBDA stmts :
    Let(interpret([globals |-> InterpreterNew.globals,
                   environment |-> InterpreterNew.environment,
                   locals |-> resolve_stmts(ResolverNew(<<>>), stmts).r.locals,
                   envs |-> GlobalsNew, fields |-> <<>>, out |-> <<>>, steps |-> 0,
                   audit |-> NoAudit, clock |-> <<>>],
                  stmts), LAMBDA y :
    IF Failed(y) /\ Unwrap(y.ex).k = "Error" THEN Unwrap(y.ex).msg ELSE ""))

\* C16: a call evaluates the callee, then the arguments from left to right,
\* and only then checks the callee: a value that is no function and no
\* class is a runtime error; an argument count other than the arity (of a
\* class: that of the init on its chain, 0 without one) is the runtime error
\* "Expected N arguments but got M."; in both cases no body and no
\* initializer runs and no instance is made.
C16_CallOrder ==
    \A kind \in CallKinds :
        input = CallSrc(kind) =>
            /\ out = CallExpected(kind).out
            /\ RuntimeMessage(input) = CallExpected(kind).msg
            /\ result = (IF kind = "order" THEN "Ok" ELSE "Runtime")
            /\ fields = <<>>

C16_Witness ==
    /\ input = CallSrc("many")
    /\ result = "Runtime"
    /\ out = <<"callee", "1", "2", "3">>

\* Lox::run of a script on a new interpreter
RunFresh(source) ==
    LoxRun(source, [interpreter |-> InterpreterNew, envs |-> GlobalsNew,
                    fields |-> <<>>, next_id |-> 0, clock |-> <<>>])

\* the frames of a heap without the declarations held by function values
FrameValues(heap) ==
    [e \in DOMAIN heap |->
        [enclosing |-> heap[e].enclosing,
         values |-> [n \in DOMAIN heap[e].values |-> Display(heap[e].values[n])]]]

\* C17: a `for` statement runs as the block and `while` it is short for: the
\* same lines are printed, the run ends the same way and leaves the same
\* frames with the same values; the initializer runs once, the condition
\* (true when left out) is tested before every round, the increment runs
\* after the body, and a variable of the initializer is unknown after the
\* loop.
C17_ForIsWhile ==
    \A kind \in ForKinds :
        input = ForSrc(kind) =>
            /\ out = ForExpected(kind)
            /\ result = (IF kind = "after" THEN "Runtime" ELSE "Ok")
            /\ kind = "after" => RuntimeMessage(input) = "Undefined variable 'i'."
            /\ out = RunFresh(WhileSrc(kind)).out
            /\ result = RunFresh(WhileSrc(kind)).result
            /\ FrameValues(envs) = FrameValues(RunFresh(WhileSrc(kind)).envs)

C17_Witness == input = ForSrc("full") /\ out = <<"0", "1", "2">> /\ Len(envs) = 5

-----------------------------------------------------------------------------
(* Scanner and parser *)

\* the scanner when the loop of scan_tokens has ended, before the Eof token
\* (whose lexeme is the text of the last lexeme scanned) is added
Scanned(source) == ScanLoop(ScannerNew(source))

\* C18: scan_tokens reads the text to its end and returns tokens of which
\* the last, and only the last, is Eof; it fails exactly when an error was
\* recorded, and then Lox::run ends with the scanner's errors; a character
\* the scanner does not know costs one error and the rest of the text is
\* scanned as if it were not there.
C18_ScanToEof ==
    input /= <<>> =>
        Let(scan_tokens(input), LAMBDA sc :
            /\ Scanned(input).current = Len(input)
            /\ Len(sc.tokens) >= 1
            /\ \A i \in 1..Len(sc.tokens) :
                    (sc.tokens[i].t_type = "Eof") = (i = Len(sc.tokens))
            /\ sc.ok = (sc.errors = <<>>)
            /\ (result = "Scanner") = (sc.errors /= <<>>)
            /\ result = "Scanner" => Len(reported) = Len(sc.errors)
            /\ Head(input) = "@" =>
                    /\ Scanned(input).tokens = Scanned(Tail(input)).tokens
                    /\ Len(sc.errors) = 1 + Len(scan_tokens(Tail(input)).errors))

C18_Witness ==
    /\ input = <<"@", "o", "@">>
    /\ result = "Scanner"
    /\ Len(reported) = 2

\* the texts of ScanTexts that are one word: a letter or `_`, then letters,
\* digits and `_`
IdentWords ==
    {w \in ScanTexts : Head(w) \in {"o", "r", "_"} /\ \A i \in DOMAIN w : w[i] \in {"o", "r", "_", "1"}}

\* C19: a word that starts with a letter or `_` and goes on with letters,
\* digits and `_` scans without error to one token with the word as its
\* lexeme: the keyword's token when the word is a keyword, else Identifier.
C19_IdentifierToken ==
    \A w \in IdentWords :
        input = w =>
            Let(scan_tokens(w), LAMBDA sc :
                /\ sc.ok
                /\ result /= "Scanner"
                /\ Len(sc.tokens) = 2
                /\ sc.tokens[1].lexeme = Text(w)
                /\ sc.tokens[1].t_type = (IF Text(w) \in DOMAIN KEYWORDS
                                          THEN KEYWORDS[Text(w)] ELSE "Identifier"))

(* Expression ids *)

\* the ids of the Variable, Assign, This and Super nodes of an optional expression
RECURSIVE ExprIds(_)
RECURSIVE StmtIds(_)
RECURSIVE StmtsIds(_)
RECURSIVE ExprsIds(_)
RECURSIVE MethodsIds(_)

\* the ids carried by the nodes of one expression, in source order of the nodes
ExprIds(e) ==
    CASE e.k = "Variable" -> <<e.id>>
      [] e.k = "This" -> <<e.id>>
      [] e.k = "Super" -> <<e.id>>
      [] e.k = "Assign" -> <<e.id>> \o ExprIds(e.value)
      [] e.k = "Set" -> ExprIds(e.object) \o ExprIds(e.value)
      [] e.k = "Get" -> ExprIds(e.object)
      [] e.k = "Call" -> ExprIds(e.callee) \o ExprsIds(e.arguments)
      [] e.k = "Unary" -> ExprIds(e.right)
      [] e.k \in {"Binary", "Logical"} -> ExprIds(e.left) \o ExprIds(e.right)
      [] e.k = "Grouping" -> ExprIds(e.expr)
      [] OTHER -> <<>>

ExprsIds(es) == IF es = <<>> THEN <<>> ELSE ExprIds(Head(es)) \o ExprsIds(Tail(es))

MethodsIds(ms) ==
    IF ms = <<>> THEN <<>> ELSE StmtsIds(Head(ms).body) \o MethodsIds(Tail(ms))

StmtIds(s) ==
    CASE s.k = "Class" -> ExprsIds(s.superclass) \o MethodsIds(s.methods)
      [] s.k = "Function" -> StmtsIds(s.f.body)
      [] s.k = "Var" -> ExprsIds(s.initializer)
      [] s.k = "Block" -> StmtsIds(s.stmts)
      [] s.k = "While" -> ExprIds(s.condition) \o StmtIds(s.body)
      [] s.k = "Return" -> ExprsIds(s.value)
      [] s.k = "If" -> ExprIds(s.condition) \o StmtIds(s.then_branch)
                        \o StmtsIds(s.else_branch)
      [] s.k \in {"Print", "Expression"} -> ExprIds(s.expr)
      [] OTHER -> <<>>

StmtsIds(ss) == IF ss = <<>> THEN <<>> ELSE StmtIds(Head(ss)) \o StmtsIds(Tail(ss))

\* a step that hands the text input' to Lox::run
RunsInput == input' /= <<>> /\ (nInputs' /= nInputs \/ pc = "main")

\* C20: the Variable, Assign, This and Super nodes of one parse carry pairwise
\* different ids, all of them handed out by this parse and none by an earlier
\* parse of the process; a parse that succeeds leaves every id it handed out
\* on exactly one node, an Assign carrying the id of the Variable it was built
\* from; the side table holds only ids handed out so far, so the nodes of a
\* later input never meet an entry of an earlier one, and a run leaves the
\* entries of earlier inputs as they were.
C20_Step ==
    RunsInput =>
        Let(scan_tokens(input'), LAMBDA sc :
        IF ~sc.ok THEN NEXT_EXPR_ID' = NEXT_EXPR_ID ELSE
        Let(parse(sc.tokens, NEXT_EXPR_ID), LAMBDA pr :
        Let(StmtsIds(pr.stmts), LAMBDA ids :
            /\ NEXT_EXPR_ID' = pr.next_id
            /\ \A i, j \in 1..Len(ids) : ids[i] = ids[j] => i = j
            /\ \A i \in 1..Len(ids) : ids[i] \in NEXT_EXPR_ID..(NEXT_EXPR_ID' - 1)
            /\ \A i \in 1..Len(ids) : ids[i] \notin DOMAIN interpreter.locals
            /\ pr.ok => Len(ids) = NEXT_EXPR_ID' - NEXT_EXPR_ID
            /\ input' = LineIncrA =>
                    /\ pr.stmts[1].expr.k = "Assign"
                    /\ pr.stmts[1].expr.id = NEXT_EXPR_ID
                    /\ pr.stmts[1].expr.value.left.id = NEXT_EXPR_ID + 1
                    /\ NEXT_EXPR_ID' = NEXT_EXPR_ID + 2
            /\ \A id \in DOMAIN interpreter'.locals : id < NEXT_EXPR_ID'
            /\ pc /= "main" =>
                    \A id \in DOMAIN interpreter.locals :
                        /\ id \in DOMAIN interpreter'.locals
                        /\ interpreter'.locals[id] = interpreter.locals[id])))

C20_UniqueIds == [][C20_Step]_vars

\* the third line of a session is the class line, run after two lines that
\* took ids, one of which left an entry in the side table
C20_Witness ==
    /\ input = LineThis
    /\ nInputs = 3
    /\ result = "Ok"
    /\ DOMAIN interpreter.locals /= {}
    /\ \E id \in DOMAIN interpreter.locals : id + 6 <= NEXT_EXPR_ID

(* Resolver *)

\* C21: the depth the resolver leaves in the side table for a Variable,
\* Assign, This or Super is the index of the innermost scope holding the
\* name, 0 being the innermost scope, also when several scopes hold it; a
\* name no scope holds gets no entry.
C21_InnermostDepth ==
    \A kind \in DepthKinds :
        (input = DepthSrc(kind) /\ pc = "exit" /\ nInputs = 0) =>
            /\ \E i \in DOMAIN stages : stages[i] = "resolve"
            /\ \A id \in DOMAIN DepthExpected(kind) :
                   /\ id \in DOMAIN interpreter.locals
                   /\ interpreter.locals[id] = DepthExpected(kind)[id]
            /\ DepthExpected(kind) = <<>> => DOMAIN interpreter.locals = {}

\* C22: every read and write at a recorded depth d, in blocks, calls, bound
\* methods and subclass methods, finds d enclosing links to follow from the
\* current environment and the name in the frame they lead to, which is never
\* the globals frame, so no run ends in the panic of get_at or assign_at
\* (the one panic of a run is that of `clock`); a reference without a
\* recorded depth reads and writes the globals binding even when a frame of
\* the chain holds the name.
C22_Coupling ==
    /\ ~audit.missing
    /\ ~audit.globals
    /\ result = "Panic" => NamesClock(input)
    /\ pc = "crashed" => result \in {"StackOverflow", "None", "Panic"}
    /\ \A kind \in CouplingKinds :
           input = CouplingSrc(kind) =>
               /\ result = "Ok"
               /\ out = CouplingExpected(kind)
               /\ audit.deepest = CouplingDeepest(kind)
    /\ input = CouplingSrc("globalwrite") =>
           /\ envs[interpreter.globals].values["a"] = Str("w")
           /\ \E e \in DOMAIN envs : e /= interpreter.globals /\ "a" \in DOMAIN envs[e].values
                                      /\ envs[e].values["a"] = Str("l")

\* a subclass method has run `super.m()` two frames below the frame of `super`
C22_Witness ==
    /\ input = CouplingSrc("super")
    /\ out = <<"AB">>
    /\ audit.deepest = 2
    /\ Len(envs) > 3

(* Expressions *)

\* C23: `a or b` evaluates a once and, a being truthy, yields a's value and
\* leaves b unevaluated, else it evaluates b and yields b's value; `a and b`
\* yields a's value with b unevaluated when a is falsy, else b's value; the
\* value yielded is the operand's, not a boolean made from it; nil and false
\* are falsy, every other value, 0 and "" included, is truthy.
C23_ShortCircuit ==
    \A c \in LogicalCases :
        input = LogicalSrc(c) =>
            /\ result = "Ok"
            /\ out = IF c.operand.truthy = (c.op = <<"o", "r">>)
                     THEN <<"a", c.operand.shown>>
                     ELSE <<"a", "b", "2">>

\* `0 or b()` has printed 0 without calling b
C23_Witness ==
    /\ input = LogicalSrc([operand |-> [src |-> <<"0">>, shown |-> "0", truthy |-> TRUE],
                           op |-> <<"o", "r">>])
    /\ out = <<"a", "0">>

\* C24: reading a property of an instance yields the field of that name when
\* there is one, also beside a method of the name; else the method found on
\* the instance's class or, failing that, up the superclass chain, the
\* nearest class that defines it winning, bound to the instance; with neither
\* the run fails with "Undefined property", and reading a property of a value
\* that is no instance fails with "Only instances have properties".
C24_PropertyRead ==
    \A kind \in GetKinds :
        input = GetSrc(kind) =>
            /\ out = GetExpected(kind)
            /\ result = (IF GetError(kind) = "" THEN "Ok" ELSE "Runtime")
            /\ GetError(kind) /= "" => RuntimeMessage(input) = GetError(kind)

\* the method of the grandparent class and the override of the parent class
\* were both read through an instance of the third class
C24_Witness == input = GetSrc("nearest") /\ out = <<"B", "An">> /\ result = "Ok"

(* Methods *)

\* the global bindings after the run
GlobalValues == envs[interpreter.globals].values

\* the function value bound to the global f is the method `name` of class A
\* bound to the instance a: the same declaration and initializer flag over a
\* new frame that holds `this` only and encloses the method's closure, the
\* class still holding the method over its own closure
BoundFromA(name) ==
    Let(GlobalValues["f"].fn, LAMBDA bound :
    Let(GlobalValues["A"].methods[name], LAMBDA method :
        /\ bound.declaration = method.declaration
        /\ bound.is_initializer = method.is_initializer
        /\ bound.is_initializer = (name = "init")
        /\ bound.closure /= method.closure
        /\ envs[bound.closure] = [values |-> ("this" :> GlobalValues["a"]),
                                  enclosing |-> Some(method.closure)]
        /\ method.closure = interpreter.globals
        /\ DOMAIN envs[method.closure].values = DOMAIN GlobalValues))

\* C25: a bound method is a new function over a fresh frame that holds
\* `this := instance` alone and encloses the method's closure; it keeps the
\* initializer flag, and the class's method and its closure stay as they
\* were; `this` in the body is the instance the method was read from, also
\* when the bound method is called from a variable or from a field of
\* another instance.
C25_Bind ==
    /\ \A kind \in BindKinds :
           input = BindSrc(kind) => result = "Ok" /\ out = BindExpected(kind)
    /\ input = BindSrc("variable") => BoundFromA("m")
    /\ input = BindSrc("init") => BoundFromA("init")

(* Parser *)

\* the token types at which synchronize stops without passing them
SyncStops == {"Class", "For", "Fun", "If", "Print", "Return", "Var", "While"}

RECURSIVE ParseProgress(_)
\* every round of the loop of Parser::parse from p on ends, leaves the parser
\* further on in the tokens, and after an error leaves it at the end, just
\* past a `;` or before a token that starts a statement
ParseProgress(p) ==
    IF is_at_end(p) THEN TRUE
    ELSE Let(declaration(p), LAMBDA r :
         IF r.overflow THEN FALSE
         ELSE Let(IF r.ok THEN r.p ELSE synchronize(r.p), LAMBDA q :
              /\ q.current > p.current
              /\ r.ok \/ is_at_end(q) \/ previous(q).t_type = "Semicolon"
                      \/ peek(q).t_type \in SyncStops
              /\ ParseProgress(q)))

\* C26: on every token sequence that ends in Eof, Parser::parse comes to an
\* end: every round of its loop consumes a token, by a declaration or by
\* synchronize after an error, which stops just past a `;` or before class,
\* for, fun, if, print, return, var or while; it returns the statements
\* exactly when there was no error and the errors, at least one, otherwise.
C26_ParseTerminates ==
    input \in ParseTexts =>
        Let(scan_tokens(input).tokens, LAMBDA tokens :
        Let(parse(tokens, 0), LAMBDA pr :
            /\ tokens[Len(tokens)].t_type = "Eof"
            /\ ~pr.overflow
            /\ result /= "StackOverflow"
            /\ ParseProgress(ParserNew(tokens, 0))
            /\ pr.ok = (pr.errors = <<>>)
            /\ (result = "Parser") = (pr.errors /= <<>>)
            /\ result /= "Parser" => "resolve" \in {stages[i] : i \in DOMAIN stages}))

\* C27: a parameter list and an argument list of 255 entries or fewer parse
\* without the error of the limit (the one error of these texts is that of
\* the statement left open, at Eof); a 256th parameter and a 256th argument
\* give the error of the limit, whose token is the token of that 256th entry.
C27_ListLimit ==
    \A c \in ListCases :
        input = ListSrc(c) =>
            Let(parse(scan_tokens(input).tokens, 0).errors, LAMBDA errors :
                /\ result = "Parser"
                /\ Len(errors) = 1
                /\ c.n <= MaxParams => errors[1].token.t_type = "Eof"
                /\ c.n > MaxParams =>
                       /\ errors[1].msg = (IF c.kind = "parameters"
                                           THEN "Can't have more than 255 parameters."
                                           ELSE "Cannot have more than 255 arguments.")
                       /\ errors[1].token.lexeme = ListEntry(c.kind, MaxParams + 1))

(* Class kinds *)

\* every statement of the text that resolves leaves the class kind it was
\* resolved under, whichever kind that is
ClassKindRestored(stmts) ==
    \A k \in {"None", "Class", "Subclass"} : \A i \in DOMAIN stmts :
        Let(resolve_stmt([ResolverNew(<<>>) EXCEPT !.current_class = k], stmts[i]),
            LAMBDA x : x.ok => x.r.current_class = k)

\* C28: the resolver accepts `this` exactly inside a class declaration
\* (functions nested in a method included) and `super` exactly when the
\* innermost class around it declares a superclass; a rejected text fails in
\* the resolver, at the keyword, and nothing of it runs.  A class declaration
\* that resolves leaves the class kind as it found it, so a class declared
\* before the expression changes nothing.
C28_ThisSuper ==
    \A c \in ClassKindCases :
        input = ClassKindSrc(c) =>
            Let(parse(scan_tokens(input).tokens, 0).stmts, LAMBDA stmts :
            Let(resolve_stmts(ResolverNew(<<>>), stmts), LAMBDA x :
                /\ ClassKindAccepted(c) => x.ok /\ result = "Ok"
                /\ ~ClassKindAccepted(c) =>
                       /\ ~x.ok /\ Unwrap(x.err).token.lexeme = c.keyword
                       /\ result = "Resolver" /\ out = <<>>
                       /\ stages = <<"scan", "parse", "resolve">>
                /\ ClassKindRestored(stmts)))

C28_Witness ==
    /\ input = ClassKindSrc([nest |-> <<"S">>, before |-> "C", keyword |-> "super"])
    /\ result = "Ok"
    /\ stages = <<"scan", "parse", "resolve", "interpret">>

(* Assignment to a global *)

\* C29: an assignment to a name without a recorded depth evaluates the
\* right-hand side first.  When globals does not define the name the run
\* ends with the runtime error "Undefined variable '<name>'.", nothing is
\* printed by the statement itself, and the frames are those the right-hand
\* side alone leaves: no binding is created.  When globals defines the name
\* the frames are those the right-hand side alone leaves except for that one
\* binding of globals, which holds the value, and the assignment yields the
\* value.
C29_AssignGlobal ==
    \A c \in AssignCases :
        input = AssignSrc(c) =>
            Let(RunFresh(AssignText(c, TRUE)), LAMBDA alone :
                /\ alone.result = "Ok"
                /\ result = (IF c.defined THEN "Ok" ELSE "Runtime")
                /\ RuntimeMessage(input) =
                       (IF c.defined THEN "" ELSE "Undefined variable 'x'.")
                /\ out = (IF c.rhs = "call" THEN <<"2">> ELSE <<>>)
                            \o (IF c.defined THEN <<"2", "2">> ELSE <<>>)
                /\ ("x" \in DOMAIN envs[interpreter.globals].values) = c.defined
                /\ FrameValues(envs) =
                       (IF c.defined
                        THEN [FrameValues(alone.envs)
                                 EXCEPT ![interpreter.globals].values["x"] = "2"]
                        ELSE FrameValues(alone.envs))
                /\ c.place /= "top" => Len(envs) > 1)

C29_Witness ==
    /\ input = AssignSrc([place |-> "function", defined |-> FALSE, rhs |-> "call"])
    /\ result = "Runtime"
    /\ out = <<"2">>
    /\ "x" \notin DOMAIN envs[interpreter.globals].values

(* The bytecode front end's scanner *)

CloxIsEof(item) == item.k = "Ok" /\ item.v.t_type = "Eof"

\* how many newlines the text has
CloxNewlines(src) == Len(SelectSeq(src, LAMBDA c : c = "\n"))

\* what the calls of next have returned so far is right: tokens carry their
\* line and a lexeme that is no empty slice, the lines never go down, the
\* texts with listed tokens or items yield those and then None, the Eof token
\* is the empty slice on the last line, it comes once and only None comes
\* after it, None comes only after the Eof token or an "Unexpected
\* character" error, and no more items are yielded than the text has
\* characters, Eof apart
CloxYieldedRight ==
    /\ \A i \in DOMAIN yielded :
          /\ yielded[i].k = "Ok" =>
                /\ yielded[i].v.line \in 1..(1 + CloxNewlines(scanner.src))
                /\ (yielded[i].v.lexeme = "") = CloxIsEof(yielded[i])
                /\ CloxIsEof(yielded[i]) =>
                       yielded[i].v = CloxToken("Eof", "", 1 + CloxNewlines(scanner.src))
          /\ \A j \in DOMAIN yielded :
                /\ (i < j /\ yielded[i].k = "Ok" /\ yielded[j].k = "Ok") =>
                       yielded[i].v.line <= yielded[j].v.line
                /\ (i < j /\ CloxIsEof(yielded[i])) => CloxIsNone(yielded[j])
          /\ CloxIsNone(yielded[i]) =>
                /\ i > 1
                /\ \/ CloxIsNone(yielded[i - 1])
                   \/ CloxIsEof(yielded[i - 1])
                   \/ yielded[i - 1].k = "Err"
    /\ \A p \in CloxPrograms :
          scanner.src = p.src =>
              \A i \in DOMAIN yielded :
                  IF i <= Len(p.tokens)
                  THEN yielded[i].k = "Ok" /\ yielded[i].v = p.tokens[i]
                  ELSE CloxIsNone(yielded[i])
    /\ \A p \in CloxRejected :
          scanner.src = p.src =>
              \A i \in DOMAIN yielded :
                  IF i <= Len(p.items)
                  THEN yielded[i].k = p.items[i].k /\ yielded[i].v = p.items[i].v
                  ELSE CloxIsNone(yielded[i])
    /\ Len(SelectSeq(yielded, LAMBDA item : ~CloxIsNone(item))) <= Len(scanner.src) + 1
    /\ scanner.is_done =>
          \E i \in DOMAIN yielded : CloxIsEof(yielded[i]) \/ yielded[i].k = "Err"

\* C30: iterating the scanner over a finite text ends: every call of next
\* returns, the items are the tokens with kind, lexeme and line, white
\* space, newlines and `//` comments being skipped (a comment followed by a
\* newline and further tokens included), then the one Eof token, and None
\* from then on.
C30_ScannerIterates ==
    /\ clox_pc /= "spinning"
    /\ CloxYieldedRight

-----------------------------------------------------------------------------
(* Numbers, characters and the clock *)

\* `print e;` prints the f64 that e denotes as impl Display for Value
\* writes it
ArithmeticPrints ==
    \A c \in ArithCases : input = ArithSrc(c) => result = "Ok" /\ out = <<c.shown>>

\* A letter or a numeric character beyond ASCII is a character of a name;
\* a digit, a blank or any other character beyond ASCII, and the form feed,
\* are characters the scanner does not know
UnicodeScans ==
    \A kind \in UnicodeKinds :
        input = UnicodeSrc(kind) =>
            IF UnicodeExpected(kind).unexpected = ""
            THEN result = "Ok" /\ out = UnicodeExpected(kind).out
            ELSE /\ result = "Scanner"
                 /\ out = <<>>
                 /\ scan_tokens(input).errors
                        = <<"Unexpected \"" \o UnicodeExpected(kind).unexpected
                                \o "\" character.">>

\* the milliseconds from the epoch to the times of ClockSample after it
ClockMillis == {"0", "1793340585694", "1793358155918", "4102444800000"}

\* what `print a <= b; print b - a;` writes for two of these readings
ClockPairs ==
    {<<"false", "-4102444800000">>, <<"false", "-2309104214306">>,
     <<"false", "-2309086644082">>, <<"false", "-1793358155918">>,
     <<"false", "-1793340585694">>, <<"false", "-17570224">>, <<"true", "0">>,
     <<"true", "17570224">>, <<"true", "1793340585694">>, <<"true", "1793358155918">>,
     <<"true", "2309086644082">>, <<"true", "2309104214306">>,
     <<"true", "4102444800000">>}

\* `clock()` is the reading of the system clock at the call in milliseconds,
\* whatever it is and whatever the one before it was; a clock before the
\* epoch ends the process
ClockReads ==
    /\ ClockSample \subseteq SystemTimes
    /\ input = ClockSrc("print") =>
            \/ result = "Ok" /\ out \in {<<ms>> : ms \in ClockMillis}
            \/ result = "Panic" /\ out = <<>> /\ pc = "crashed"
    /\ input = ClockSrc("twice") =>
            \/ result = "Ok" /\ out \in ClockPairs
            \/ result = "Panic" /\ out = <<>> /\ pc = "crashed"
    /\ input = ClockSrc("name") => result = "Ok" /\ out = <<"<native fn>">>

\* the message of the panic tells how far before the epoch the clock stands
ClockPanics ==
    \A t \in ClockSample : \A shown \in {"5s", "500ms"} :
        (t.neg /\ DurationDebug(duration_since(t)) = shown)
            => NativeCall([clock |-> <<t>>], CallableNative(0), <<>>).ex
                   = Some(Panic("called U+0060Result::unwrap()U+0060 on an U+0060ErrU+0060"
                                    \o " value: SystemTimeError(" \o shown \o ")"))

\* each reading is seen: the clock may stand still, go on and go back
ClockForward == input = ClockSrc("twice") /\ out = <<"true", "17570224">>

ClockBack == input = ClockSrc("twice") /\ out = <<"false", "-17570224">>

ClockStill == input = ClockSrc("twice") /\ out = <<"true", "0">>

ClockBeforeEpoch == input = ClockSrc("print") /\ result = "Panic"

ClockNow == input = ClockSrc("print") /\ out = <<"1793358155918">>

=============================================================================
